---- MODULE Spec2Model ----
(***************************************************************************)
(* Model of the Avalanche consensus simulation of                          *)
(* Assignment-1/Arnab-240185-1 (avalanche.py, with Transaction and Block   *)
(* from bitcoin.py): the network of AvalancheNode objects, the mempool,    *)
(* the four consensus phases of participate_in_consensus, and the          *)
(* coordinator run_consensus_on_block / process_pending_transactions.      *)
(***************************************************************************)
EXTENDS Integers, Sequences, FiniteSets, TLC

(***************************************************************************)
(* Bounds of the model.                                                    *)
(***************************************************************************)
\* number of nodes of the network under the specification Spec
NumNodes == 7
\* number of nodes of the network under the specification SpecLedger
LedgerNodes == 4
\* transactions created under Spec / under SpecLedger
MaxTx == 2
LedgerMaxTx == 3
\* blocks proposed (after genesis) under Spec / under SpecLedger
MaxBlocks == 1
LedgerMaxBlocks == 2
\* direct calls of run_consensus_on_block on an already proposed block
MaxReruns == 1
\* calls of sample_nodes whose result is not the sample_size lowest-numbered peers
MaxVaried == 2
\* length of the outcome vectors of SpecDecide
DecideNodes == 10
\* SpecApi: nodes, transactions created, direct calls of create_block_proposal,
\* direct calls of run_consensus_on_block
ApiNodes == 3
ApiMaxTx == 1
ApiMaxProposals == 2
ApiMaxRuns == 2
\* SpecSample: largest network sample_nodes is called on
SampleNodes == 7
\* SpecQuery: nodes of the network, calls of query_node_opinion
QueryNodes == 3
MaxQueries == 2
\* SpecConcurrent: nodes of the network
ConcurrentNodes == 2
\* SpecPow: nodes of the network, transactions created, blocks mined
PowNodes == 4
PowMaxTx == 3
PowMaxBlocks == 2
\* SpecRound: largest network of the participating node
RoundNodes == 7
\* SpecMine: miners, create_block calls, largest nonce a hash matches at
MineMiners == 2
MineMaxCalls == 2
MineMaxNonce == 1
\* SpecSim: nodes, Snowflake threshold alpha, max_rounds
SimNodes == 4
SimAlpha == 2
SimMaxRounds == 3
\* SpecSession: rounds of one consensus loop, blocks
SessionMaxChecks == 7
SessionMaxBlocks == 2

(***************************************************************************)
(* Program constants.                                                      *)
(***************************************************************************)
sample_size == 5
quorum_threshold == 3
decision_threshold == 1
confidence_threshold == 3
SnowflakeRounds == 5
SnowballRounds == 10
GenesisAward == 100
transactions_per_block == 2
\* the sender key (0, 0) of a system transaction
SystemSender == 0
\* bitcoin.py: the genesis award per node and Miner.mining_reward
PowGenesisAward == 50
mining_reward == 50
\* the amounts of the transfers under SpecPow
PowAmounts == {30, 60}
\* the fees of the create_block calls
MineFees == {-1, 5}

\* main2_av.py: the consensus parameters
quorum == 20
majority == 14
threshold == 5
\* the user's initial balance, the amounts entered (0 stops), the recipient
\* ids entered (3 is no node)
SessionBalance == 100
SessionAmounts == {0, 30, 200}
SessionRecipients == {2, 3}

VARIABLES
    nodes,              \* AvalancheBlockchain.nodes, as the set of node ids 1..n
    blockchain,         \* node -> AvalancheNode.blockchain (sequence of blocks)
    balance,            \* node -> AvalancheNode.balance
    finalized_blocks,   \* node -> AvalancheNode.finalized_blocks (set of hashes)
    consensus_states,   \* node -> AvalancheNode.consensus_states (hash -> ConsensusState)
    mempool,            \* AvalancheBlockchain.mempool
    pc,                 \* position of the coordinator
    caller,             \* who called run_consensus_on_block: "process" or "direct"
    blk,                \* the block run_consensus_on_block is running on
    cur,                \* the node of the for loop of run_consensus_on_block
    rounds,             \* rounds done of the current phase loop
    consensus_results,  \* the list consensus_results of run_consensus_on_block
    accepted,           \* hash -> value returned by the last run_consensus_on_block
    known,              \* the blocks created so far, in creation order
    clock,              \* number of transactions created (stands for time.time())
    reruns,             \* number of direct calls of run_consensus_on_block
    varied,             \* number of samples that were not the default sample
    createdAt,          \* transaction id -> sender's replayed balance at creation
    finalRet,           \* node -> hash -> value returned by the finalizing call
    lastCall,           \* outcome of the last client call
    workers,            \* node -> position and locals of its concurrent participation
    mining,             \* shivang-240980-1/main.py: Blockchain and the miner threads
    simulation,         \* Aman-240101-1/Avalance_simulation.py: AvalancheSimulation
    session             \* Sourish_241037_1/main2_av.py: the globals of the script

vars == << nodes, blockchain, balance, finalized_blocks, consensus_states, mempool,
           pc, caller, blk, cur, rounds, consensus_results, accepted, known, clock,
           reruns, varied, createdAt, finalRet, lastCall, workers, mining,
           simulation, session >>

\* the programs of the other submissions
variantVars == << mining, simulation, session >>

\* a program that has not been started
NotStarted == [pc |-> "absent"]

\* none of the other programs has been started
VariantsIdle == mining = NotStarted /\ simulation = NotStarted /\ session = NotStarted

NoBlock == [index |-> -1, hash |-> -1, previous_hash |-> -1,
            transactions |-> << >>, zeros |-> FALSE]

Min(a, b) == IF a < b THEN a ELSE b

RECURSIVE SumSeq(_)
SumSeq(s) == IF s = << >> THEN 0 ELSE Head(s) + SumSeq(Tail(s))

RECURSIVE Flatten(_)
Flatten(ss) == IF ss = << >> THEN << >> ELSE Head(ss) \o Flatten(Tail(ss))

\* function f extended (or overridden) at key k
Put(f, k, v) == [x \in (DOMAIN f) \cup {k} |-> IF x = k THEN v ELSE f[x]]

(***************************************************************************)
(* Transaction (bitcoin.py).  A public key is modelled by the id of the    *)
(* node that owns it, the system key (0, 0) by 0.  A signature is modelled *)
(* by the id of the node whose private key produced it, 0 for an absent    *)
(* (None) or zero signature.                                               *)
(***************************************************************************)
Transaction(id, s, r, a, sig) ==
    [transaction_id |-> id, sender_public_key |-> s, recipient_public_key |-> r,
     amount |-> a, signature |-> sig]

\* CryptographicUtils.sign_message with the private key of node n
sign_transaction(tx, n) == [tx EXCEPT !.signature = n]

\* Transaction.verify_transaction
verify_transaction(tx) ==
    IF tx.signature = 0 THEN FALSE
    ELSE tx.signature = tx.sender_public_key

(***************************************************************************)
(* Block (bitcoin.py).  The sha256 hash is modelled by a fresh number per  *)
(* created block; zeros tells whether the hex digest starts with "0000".   *)
(***************************************************************************)
Block(idx, h, prev, txs, z) ==
    [index |-> idx, hash |-> h, previous_hash |-> prev, transactions |-> txs,
     zeros |-> z]

(***************************************************************************)
(* AvalancheNode                                                           *)
(***************************************************************************)
\* ConsensusState(block_hash, current_preference) with the dataclass defaults
ConsensusState(pref) ==
    [current_preference |-> pref, confidence |-> 0, consecutive_count |-> 0,
     preference_counters |-> [v \in {0, 1} |-> 0], finalized |-> FALSE]

\* TxEffect without the debit of the sender
TxEffectCreditOnly(tx, n) ==
    IF tx.recipient_public_key = n THEN tx.amount ELSE 0

\* the effect of one transaction on the balance of the node with key n
TxEffect(tx, n) ==
    (IF tx.recipient_public_key = n THEN tx.amount ELSE 0)
    - (IF tx.sender_public_key = n THEN tx.amount ELSE 0)

\* AvalancheNode.update_balance: replay of the chain
update_balance(chain, n) ==
    LET txs == Flatten([i \in 1..Len(chain) |-> chain[i].transactions])
    IN  SumSeq([i \in 1..Len(txs) |-> TxEffect(txs[i], n)])

\* SufficientBalance without the comparison
SufficientAlways(bal, amount) == TRUE

\* the test of create_transaction that lets the transaction through
SufficientBalance(bal, amount) == ~(bal < amount)

\* sample_nodes without the exclusion of the calling node
SampleNodesWithSelf(n) ==
    LET available == nodes
        size == Min(sample_size, Cardinality(available))
    IN  {S \in SUBSET available : Cardinality(S) = size}

\* AvalancheNode.sample_nodes: the possible results of random.sample
sample_nodes(n) ==
    LET available == nodes \ {n}
        size == Min(sample_size, Cardinality(available))
    IN  {S \in SUBSET available : Cardinality(S) = size}

\* the sample of the sample_size lowest-numbered peers
DefaultSample(n) ==
    LET available == nodes \ {n}
        size == Min(sample_size, Cardinality(available))
    IN  {p \in available : Cardinality({q \in available : q < p}) < size}

\* Unseen that takes every peer of the sample for one without a ConsensusState
UnseenAll(S, h) == S

\* the peers of a sample on which query_node_opinion creates a ConsensusState
Unseen(S, h) ==
    {p \in S : h \notin finalized_blocks[p] /\ h \notin DOMAIN consensus_states[p]}

\* query_node_opinion that looks at the ConsensusState of the peer first
QueryStateFirst(h, p, fresh) ==
    IF h \in DOMAIN consensus_states[p]
    THEN consensus_states[p][h].current_preference
    ELSE IF h \in finalized_blocks[p] THEN 1
         ELSE fresh[p]

\* AvalancheNode.query_node_opinion; fresh gives the random initial opinions
query_node_opinion(h, p, fresh) ==
    IF h \in finalized_blocks[p] THEN 1
    ELSE IF h \in DOMAIN consensus_states[p]
         THEN consensus_states[p][h].current_preference
         ELSE fresh[p]

\* AfterQueries that stores a new ConsensusState of the answered opinion on
\* every sampled peer that has not the item in its finalized set
AfterQueriesOverwrites(S, h, fresh) ==
    [p \in nodes |->
        IF p \in S /\ h \notin finalized_blocks[p]
        THEN Put(consensus_states[p], h,
                 ConsensusState(query_node_opinion(h, p, fresh)))
        ELSE consensus_states[p]]

\* AfterQueries that does not keep the ConsensusState it initialises
AfterQueriesNoPersist(S, h, fresh) == consensus_states

\* consensus_states after the queries of the sample S
AfterQueries(S, h, fresh) ==
    [p \in nodes |->
        IF p \in Unseen(S, h)
        THEN Put(consensus_states[p], h, ConsensusState(fresh[p]))
        ELSE consensus_states[p]]

\* sum(opinions) over the sample
AcceptCount(S, h, fresh) ==
    Cardinality({p \in S : query_node_opinion(h, p, fresh) = 1})

\* MajorityOpinion that adopts accept on a tie
MajorityOpinionTieAccepts(accept_count, total) ==
    IF accept_count >= total - accept_count THEN 1 ELSE 0

\* the majority rule of slush_phase and snowflake_phase
MajorityOpinion(accept_count, total) ==
    IF accept_count > total - accept_count THEN 1 ELSE 0

\* snowflake_phase: the ConsensusState after one round
SnowflakeUpdate(state, accept_count, total) ==
    LET quorum_reached == accept_count >= quorum_threshold
        majority_state == MajorityOpinion(accept_count, total)
    IN  IF quorum_reached /\ majority_state = state.current_preference
        THEN [state EXCEPT !.consecutive_count = @ + 1]
        ELSE [state EXCEPT !.consecutive_count = 0,
                           !.current_preference = majority_state]

\* SnowballUpdate that lets a tally that only equals the other set the preference
SnowballUpdateOnTie(state, accept_count, total) ==
    LET reject_count == total - accept_count
        counted ==
            IF accept_count >= quorum_threshold
            THEN LET c == [state.preference_counters EXCEPT ![1] = @ + 1]
                 IN  [state EXCEPT !.preference_counters = c,
                                   !.current_preference =
                                       IF c[1] >= c[0] THEN 1 ELSE @]
            ELSE IF reject_count >= quorum_threshold
            THEN LET c == [state.preference_counters EXCEPT ![0] = @ + 1]
                 IN  [state EXCEPT !.preference_counters = c,
                                   !.current_preference =
                                       IF c[0] >= c[1] THEN 0 ELSE @]
            ELSE state
    IN  [counted EXCEPT !.confidence = @ + 1]

\* SnowballUpdate that raises the confidence only in a round with quorum
SnowballUpdateConfidenceOnQuorum(state, accept_count, total) ==
    LET reject_count == total - accept_count
        counted ==
            IF accept_count >= quorum_threshold
            THEN LET c == [state.preference_counters EXCEPT ![1] = @ + 1]
                 IN  [state EXCEPT !.preference_counters = c,
                                   !.current_preference =
                                       IF c[1] > c[0] THEN 1 ELSE @]
            ELSE IF reject_count >= quorum_threshold
            THEN LET c == [state.preference_counters EXCEPT ![0] = @ + 1]
                 IN  [state EXCEPT !.preference_counters = c,
                                   !.current_preference =
                                       IF c[0] > c[1] THEN 0 ELSE @]
            ELSE state
    IN  IF counted = state THEN state ELSE [counted EXCEPT !.confidence = @ + 1]

\* SnowballUpdate that counts without ever switching the preference
SnowballUpdateNoSwitch(state, accept_count, total) ==
    LET reject_count == total - accept_count
        counted ==
            IF accept_count >= quorum_threshold
            THEN [state EXCEPT !.preference_counters[1] = @ + 1]
            ELSE IF reject_count >= quorum_threshold
            THEN [state EXCEPT !.preference_counters[0] = @ + 1]
            ELSE state
    IN  [counted EXCEPT !.confidence = @ + 1]

\* snowball_phase: the ConsensusState after one round
SnowballUpdate(state, accept_count, total) ==
    LET reject_count == total - accept_count
        counted ==
            IF accept_count >= quorum_threshold
            THEN LET c == [state.preference_counters EXCEPT ![1] = @ + 1]
                 IN  [state EXCEPT !.preference_counters = c,
                                   !.current_preference =
                                       IF c[1] > c[0] THEN 1 ELSE @]
            ELSE IF reject_count >= quorum_threshold
            THEN LET c == [state.preference_counters EXCEPT ![0] = @ + 1]
                 IN  [state EXCEPT !.preference_counters = c,
                                   !.current_preference =
                                       IF c[0] > c[1] THEN 0 ELSE @]
            ELSE state
    IN  [counted EXCEPT !.confidence = @ + 1]

\* FinalizedAfterAvalanche that never adds the hash
FinalizedNever(fset, h, preference) == fset

\* FinalizedAfterAvalanche that adds the hash whatever the preference
FinalizedAlways(fset, h, preference) == fset \cup {h}

\* avalanche_phase: the finalized set of the node after the final decision
FinalizedAfterAvalanche(fset, h, preference) ==
    IF preference = 1 THEN fset \cup {h} ELSE fset

\* AddBlockChain that puts the block at the head of the chain
AddBlockChainFront(n, b) == << b >> \o blockchain[n]

\* AvalancheNode.add_block: the chain of node n after the append
AddBlockChain(n, b) == Append(blockchain[n], b)

\* HoldsBlock that never finds the block
HoldsBlockNever(chain, h) == FALSE

\* the test of run_consensus_on_block that a node already holds the block
HoldsBlock(chain, h) == \E i \in 1..Len(chain) : chain[i].hash = h

\* NodesToAdd restricted to the nodes whose own participation returned accept
NodesToAddVoters(decision, results, h) ==
    {n \in nodes : decision /\ results[n] /\ ~HoldsBlock(blockchain[n], h)}

\* the nodes run_consensus_on_block calls add_block on
NodesToAdd(decision, results, h) ==
    {n \in nodes : decision /\ ~HoldsBlock(blockchain[n], h)}

\* NetworkDecision that lets an equal split through
NetworkDecisionTies(results) ==
    LET accept_count == Cardinality({i \in 1..Len(results) : results[i]})
        reject_count == Len(results) - accept_count
    IN  accept_count >= reject_count

\* the majority test of run_consensus_on_block on the per-node outcomes
NetworkDecision(results) ==
    LET accept_count == Cardinality({i \in 1..Len(results) : results[i]})
        reject_count == Len(results) - accept_count
    IN  accept_count > reject_count

\* MempoolAfterAccept with the test on the system sender inverted
MempoolAfterAcceptSystemOnly(pool, b) ==
    LET processed_tx_ids ==
            {b.transactions[i].transaction_id : i \in
                {j \in 1..Len(b.transactions) :
                    b.transactions[j].sender_public_key = SystemSender}}
    IN  SelectSeq(pool, LAMBDA tx : tx.transaction_id \notin processed_tx_ids)

\* the mempool after run_consensus_on_block accepted block b
MempoolAfterAccept(pool, b) ==
    LET processed_tx_ids ==
            {b.transactions[i].transaction_id : i \in
                {j \in 1..Len(b.transactions) :
                    b.transactions[j].sender_public_key # SystemSender}}
    IN  SelectSeq(pool, LAMBDA tx : tx.transaction_id \notin processed_tx_ids)

\* MempoolAfterReject that keeps the transactions of the rejected block
MempoolAfterRejectKeeps(pool) == pool

\* MempoolAfterReject that drops one transaction only
MempoolAfterRejectOne(pool) == SubSeq(pool, 2, Len(pool))

\* the mempool after process_pending_transactions saw its block rejected
MempoolAfterReject(pool) ==
    SubSeq(pool, transactions_per_block + 1, Len(pool))

\* AvalancheBlockchain.add_transaction_to_mempool
add_transaction_to_mempool(pool, tx) ==
    IF verify_transaction(tx) THEN Append(pool, tx) ELSE pool

(***************************************************************************)
(* The state after AvalancheBlockchain.initialize_network created n nodes  *)
(* and before it calls create_genesis_block.                               *)
(***************************************************************************)
NoStates == [h \in {} |-> 0]

NoCall == [op |-> "none", sender |-> 0, recipient |-> 0, amount |-> 0]

InitNetwork(n) ==
    /\ nodes = 1..n
    /\ blockchain = [i \in 1..n |-> << >>]
    /\ balance = [i \in 1..n |-> 0]
    /\ finalized_blocks = [i \in 1..n |-> {}]
    /\ consensus_states = [i \in 1..n |-> NoStates]
    /\ mempool = << >>
    /\ pc = "init"
    /\ caller = "none"
    /\ blk = NoBlock
    /\ cur = 0
    /\ rounds = 0
    /\ consensus_results = << >>
    /\ accepted = NoStates
    /\ known = << >>
    /\ clock = 0
    /\ reruns = 0
    /\ varied = 0
    /\ createdAt = NoStates
    /\ finalRet = [i \in 1..n |-> NoStates]
    /\ lastCall = NoCall
    /\ workers = << >>
    /\ VariantsIdle

\* the variables of the for loop of run_consensus_on_block
loopVars == << caller, blk, cur, rounds, consensus_results >>
\* what only a client call changes
clientVars == << known, clock, reruns, createdAt, lastCall >>
\* the chains and what add_block derives from them
chainVars == << blockchain, balance, finalized_blocks >>

\* where run_consensus_on_block returns to
ReturnTo(who) == IF who = "process" THEN "loop" ELSE "idle"

\* IsForcedGenesis that never takes the forced branch
IsForcedGenesisNever(b) == FALSE

\* the test of run_consensus_on_block for the forced acceptance of genesis
IsForcedGenesis(b) == b.index = 0 /\ Len(blockchain[1]) = 0

(***************************************************************************)
(* run_consensus_on_block up to the for loop over the nodes: the forced    *)
(* acceptance of the genesis block, or the start of the loop.              *)
(***************************************************************************)
RunConsensusOnBlock(b, who) ==
    IF IsForcedGenesis(b)
    THEN /\ blockchain' = [n \in nodes |-> AddBlockChain(n, b)]
         /\ balance' = [n \in nodes |-> update_balance(AddBlockChain(n, b), n)]
         /\ finalized_blocks' = [n \in nodes |-> finalized_blocks[n] \cup {b.hash}]
         /\ accepted' = Put(accepted, b.hash, TRUE)
         /\ pc' = ReturnTo(who)
         /\ UNCHANGED << consensus_states, mempool, loopVars, varied, finalRet >>
    ELSE /\ pc' = "participate"
         /\ caller' = who
         /\ blk' = b
         /\ cur' = 1
         /\ rounds' = 0
         /\ consensus_results' = << >>
         /\ UNCHANGED << chainVars, consensus_states, mempool, accepted, varied,
                         finalRet >>

\* AvalancheBlockchain.create_genesis_block
CreateGenesisBlock ==
    /\ pc = "init"
    /\ LET genesis_transactions ==
               [i \in 1..Cardinality(nodes) |->
                   Transaction(-i, SystemSender, i, GenesisAward, 0)]
           genesis_block == Block(0, 1, 0, genesis_transactions, FALSE)
       IN  /\ known' = Append(known, genesis_block)
           /\ RunConsensusOnBlock(genesis_block, "genesis")
    /\ UNCHANGED << nodes, workers, variantVars, clock, reruns, createdAt, lastCall >>

\* create_block_proposal that builds on the first block of node 0's chain
CreateBlockProposalOnFirst(transactions, z) ==
    LET chain == blockchain[1]
    IN  IF Len(chain) > 0
        THEN Block(chain[Len(chain)].index + 1, Len(known) + 1, chain[1].hash,
                   transactions, z)
        ELSE Block(0, Len(known) + 1, 0, transactions, z)

\* AvalancheBlockchain.create_block_proposal (transactions is never empty here)
create_block_proposal(transactions, z) ==
    LET chain == blockchain[1]
        latest_block == chain[Len(chain)]
    IN  IF Len(chain) > 0
        THEN Block(latest_block.index + 1, Len(known) + 1, latest_block.hash,
                   transactions, z)
        ELSE Block(0, Len(known) + 1, 0, transactions, z)

\* process_pending_transactions, up to its while loop
ProcessPendingTransactions ==
    /\ pc = "idle"
    /\ mempool # << >>
    /\ pc' = "loop"
    /\ lastCall' = NoCall
    /\ UNCHANGED << nodes, workers, variantVars,
                    chainVars, consensus_states, mempool, loopVars, accepted,
                    known, clock, reruns, varied, createdAt, finalRet >>

\* one test of `while self.mempool`: leave the loop, or propose the next block
\* and call run_consensus_on_block on it
ProcessLoop ==
    /\ pc = "loop"
    /\ IF mempool = << >>
       THEN /\ pc' = "idle"
            /\ UNCHANGED << chainVars, consensus_states, mempool, loopVars, accepted,
                            known, varied, finalRet >>
       ELSE \E z \in BOOLEAN :
               LET block_transactions ==
                       SubSeq(mempool, 1, Min(transactions_per_block, Len(mempool)))
                   proposed_block == create_block_proposal(block_transactions, z)
               IN  /\ known' = Append(known, proposed_block)
                   /\ RunConsensusOnBlock(proposed_block, "process")
    /\ UNCHANGED << nodes, workers, variantVars, clock, reruns, createdAt, lastCall >>

\* a direct call of run_consensus_on_block on a block created earlier
RunConsensusAgain ==
    /\ pc = "idle"
    /\ reruns < MaxReruns
    /\ \E i \in 1..Len(known) : RunConsensusOnBlock(known[i], "direct")
    /\ reruns' = reruns + 1
    /\ lastCall' = NoCall
    /\ UNCHANGED << nodes, workers, variantVars, known, clock, createdAt >>

(***************************************************************************)
(* participate_in_consensus of node cur on block blk                       *)
(***************************************************************************)
\* Return that leaves the loop one node early
ReturnSkipsLast(result) ==
    /\ consensus_results' = Append(consensus_results, result)
    /\ rounds' = 0
    /\ IF cur + 1 >= Cardinality(nodes)
       THEN pc' = "aggregate" /\ cur' = cur
       ELSE pc' = "participate" /\ cur' = cur + 1

\* the return of participate_in_consensus into the loop of the coordinator
Return(result) ==
    /\ consensus_results' = Append(consensus_results, result)
    /\ rounds' = 0
    /\ IF cur = Cardinality(nodes)
       THEN pc' = "aggregate" /\ cur' = cur
       ELSE pc' = "participate" /\ cur' = cur + 1

\* ShortCircuits without the test of the finalized ConsensusState
ShortCircuitsFinalizedSetOnly(n, h) == h \in finalized_blocks[n]

\* the two tests at the head of participate_in_consensus
ShortCircuits(n, h) ==
    \/ h \in finalized_blocks[n]
    \/ h \in DOMAIN consensus_states[n] /\ consensus_states[n][h].finalized

\* the value the short circuit of participate_in_consensus returns
ShortCircuitValue(n, h) ==
    IF h \in finalized_blocks[n] THEN TRUE
    ELSE consensus_states[n][h].current_preference = 1

\* a result S of sample_nodes, within the budget of non-default samples
Draws(S) ==
    /\ S \in sample_nodes(cur)
    /\ S = DefaultSample(cur) \/ varied < MaxVaried
    /\ varied' = IF S = DefaultSample(cur) THEN varied ELSE varied + 1

ParticipateShortCircuit ==
    /\ pc = "participate"
    /\ ShortCircuits(cur, blk.hash)
    /\ Return(ShortCircuitValue(cur, blk.hash))
    /\ UNCHANGED << nodes, workers, variantVars, chainVars, consensus_states, mempool, caller, blk,
                    accepted, clientVars, varied, finalRet >>

\* the node has no ConsensusState for the block: a biased random preference
\* for a hash that starts with "0000" or on an empty chain, slush_phase otherwise
ParticipateInit ==
    /\ pc = "participate"
    /\ ~ShortCircuits(cur, blk.hash)
    /\ blk.hash \notin DOMAIN consensus_states[cur]
    /\ IF blk.zeros \/ Len(blockchain[cur]) = 0
       THEN /\ \E initial_preference \in {0, 1} :
                  consensus_states' =
                      [consensus_states EXCEPT
                          ![cur] = Put(@, blk.hash, ConsensusState(initial_preference))]
            /\ UNCHANGED varied
       ELSE \E S \in SUBSET nodes :
               /\ Draws(S)
               /\ \E fresh \in [Unseen(S, blk.hash) -> {0, 1}] :
                     LET majority_opinion ==
                             MajorityOpinion(AcceptCount(S, blk.hash, fresh),
                                             Cardinality(S))
                     IN  consensus_states' =
                             [AfterQueries(S, blk.hash, fresh) EXCEPT
                                 ![cur] = Put(@, blk.hash,
                                              ConsensusState(majority_opinion))]
    /\ pc' = "snowflake"
    /\ rounds' = 0
    /\ UNCHANGED << nodes, workers, variantVars,
                    chainVars, mempool, caller, blk, cur, consensus_results,
                    accepted, clientVars, finalRet >>

\* the node holds a ConsensusState that a peer's query created: no slush_phase
ParticipateResume ==
    /\ pc = "participate"
    /\ ~ShortCircuits(cur, blk.hash)
    /\ blk.hash \in DOMAIN consensus_states[cur]
    /\ pc' = "snowflake"
    /\ rounds' = 0
    /\ UNCHANGED << nodes, workers, variantVars,
                    chainVars, consensus_states, mempool, caller, blk, cur,
                    consensus_results, accepted, clientVars, varied, finalRet >>

\* SnowflakeRound without the break at the decision threshold
SnowflakeRoundNoBreak ==
    /\ pc = "snowflake"
    /\ \E S \in SUBSET nodes :
          /\ Draws(S)
          /\ \E fresh \in [Unseen(S, blk.hash) -> {0, 1}] :
                LET state ==
                        SnowflakeUpdate(consensus_states[cur][blk.hash],
                                        AcceptCount(S, blk.hash, fresh), Cardinality(S))
                IN  /\ consensus_states' =
                           [AfterQueries(S, blk.hash, fresh) EXCEPT
                               ![cur] = Put(@, blk.hash, state)]
                    /\ IF rounds + 1 = SnowflakeRounds
                       THEN pc' = "snowball" /\ rounds' = 0
                       ELSE pc' = "snowflake" /\ rounds' = rounds + 1
    /\ UNCHANGED << nodes, workers, variantVars,
                    chainVars, mempool, caller, blk, cur, consensus_results,
                    accepted, clientVars, finalRet >>

\* one iteration of `for _ in range(5)`: a call of snowflake_phase
SnowflakeRound ==
    /\ pc = "snowflake"
    /\ \E S \in SUBSET nodes :
          /\ Draws(S)
          /\ \E fresh \in [Unseen(S, blk.hash) -> {0, 1}] :
                LET state ==
                        SnowflakeUpdate(consensus_states[cur][blk.hash],
                                        AcceptCount(S, blk.hash, fresh), Cardinality(S))
                    reached == state.consecutive_count >= decision_threshold
                IN  /\ consensus_states' =
                           [AfterQueries(S, blk.hash, fresh) EXCEPT
                               ![cur] = Put(@, blk.hash, state)]
                    /\ IF reached \/ rounds + 1 = SnowflakeRounds
                       THEN pc' = "snowball" /\ rounds' = 0
                       ELSE pc' = "snowflake" /\ rounds' = rounds + 1
    /\ UNCHANGED << nodes, workers, variantVars,
                    chainVars, mempool, caller, blk, cur, consensus_results,
                    accepted, clientVars, finalRet >>

\* one iteration of `for _ in range(10)`: a call of snowball_phase
SnowballRound ==
    /\ pc = "snowball"
    /\ \E S \in SUBSET nodes :
          /\ Draws(S)
          /\ \E fresh \in [Unseen(S, blk.hash) -> {0, 1}] :
                LET state ==
                        SnowballUpdate(consensus_states[cur][blk.hash],
                                       AcceptCount(S, blk.hash, fresh), Cardinality(S))
                    reached == state.confidence >= confidence_threshold
                IN  /\ consensus_states' =
                           [AfterQueries(S, blk.hash, fresh) EXCEPT
                               ![cur] = Put(@, blk.hash, state)]
                    /\ IF reached \/ rounds + 1 = SnowballRounds
                       THEN pc' = "avalanche" /\ rounds' = 0
                       ELSE pc' = "snowball" /\ rounds' = rounds + 1
    /\ UNCHANGED << nodes, workers, variantVars,
                    chainVars, mempool, caller, blk, cur, consensus_results,
                    accepted, clientVars, finalRet >>

\* avalanche_phase, and the return of its value by participate_in_consensus
AvalanchePhase ==
    /\ pc = "avalanche"
    /\ LET h == blk.hash
           state == [consensus_states[cur][h] EXCEPT !.finalized = TRUE]
           result == state.current_preference = 1
       IN  /\ consensus_states' = [consensus_states EXCEPT ![cur] = Put(@, h, state)]
           /\ finalized_blocks' =
                  [finalized_blocks EXCEPT
                      ![cur] = FinalizedAfterAvalanche(@, h, state.current_preference)]
           /\ finalRet' = [finalRet EXCEPT ![cur] = Put(@, h, result)]
           /\ Return(result)
    /\ UNCHANGED << nodes, workers, variantVars,
                    blockchain, balance, mempool, caller, blk, accepted,
                    clientVars, varied >>

(***************************************************************************)
(* run_consensus_on_block after the for loop: the network decision and its *)
(* effects, then (in process_pending_transactions) the drop of the         *)
(* transactions of a rejected block.                                       *)
(***************************************************************************)
Aggregate ==
    /\ pc = "aggregate"
    /\ LET h == blk.hash
           decision == NetworkDecision(consensus_results)
           adds == NodesToAdd(decision, consensus_results, h)
           pool == IF decision THEN MempoolAfterAccept(mempool, blk) ELSE mempool
       IN  /\ blockchain' =
                  [n \in nodes |->
                      IF n \in adds THEN AddBlockChain(n, blk) ELSE blockchain[n]]
           /\ balance' =
                  [n \in nodes |->
                      IF n \in adds THEN update_balance(AddBlockChain(n, blk), n)
                      ELSE balance[n]]
           /\ finalized_blocks' =
                  [n \in nodes |->
                      IF n \in adds THEN finalized_blocks[n] \cup {h}
                      ELSE finalized_blocks[n]]
           /\ mempool' =
                  IF caller = "process" /\ ~decision
                  THEN MempoolAfterReject(pool)
                  ELSE pool
           /\ accepted' = Put(accepted, h, decision)
    /\ pc' = ReturnTo(caller)
    /\ UNCHANGED << nodes, workers, variantVars,
                    consensus_states, loopVars, clientVars, varied, finalRet >>

(***************************************************************************)
(* Client calls                                                            *)
(***************************************************************************)
\* blocks proposed so far plus those the mempool needs once tx more are appended
BlocksAhead(more) ==
    (Len(known) - 1)
    + ((Len(mempool) + more + transactions_per_block - 1) \div transactions_per_block)

\* node s calls create_transaction; the caller hands a created transaction to
\* add_transaction_to_mempool (main, create_demo_transactions)
CreateTransaction(s, r, amount, maxTx, maxBlocks) ==
    /\ pc = "idle"
    /\ clock < maxTx
    /\ BlocksAhead(1) <= maxBlocks
    /\ LET bal == update_balance(blockchain[s], s)
           transaction ==
               sign_transaction(Transaction(clock + 1, s, r, amount, 0), s)
       IN  /\ balance' = [balance EXCEPT ![s] = bal]
           /\ IF SufficientBalance(bal, amount)
              THEN /\ mempool' = add_transaction_to_mempool(mempool, transaction)
                   /\ clock' = clock + 1
                   /\ createdAt' = Put(createdAt, clock + 1, bal)
                   /\ lastCall' = NoCall
              ELSE /\ lastCall' = [op |-> "refused", sender |-> s,
                                   recipient |-> r, amount |-> amount]
                   /\ UNCHANGED << mempool, clock, createdAt >>
    /\ UNCHANGED << nodes, workers, variantVars, blockchain, finalized_blocks, consensus_states, pc,
                    loopVars, accepted, known, reruns, varied, finalRet >>

\* add_transaction_to_mempool on a transaction built without the sender's key:
\* sig is 0 (no signature) or the id of another node
AddUnsignedTransaction(s, r, amount, sig) ==
    /\ pc = "idle"
    /\ sig # s
    /\ mempool' =
           add_transaction_to_mempool(mempool, Transaction(clock + 1, s, r, amount, sig))
    /\ lastCall' = [op |-> "unsigned", sender |-> s, recipient |-> r,
                     amount |-> amount]
    /\ UNCHANGED << nodes, workers, variantVars,
                    chainVars, consensus_states, pc, loopVars, accepted,
                    known, clock, reruns, varied, createdAt, finalRet >>

Consensus ==
    \/ CreateGenesisBlock
    \/ ProcessPendingTransactions
    \/ ProcessLoop
    \/ ParticipateShortCircuit
    \/ ParticipateInit
    \/ ParticipateResume
    \/ SnowflakeRound
    \/ SnowballRound
    \/ AvalanchePhase
    \/ Aggregate

(***************************************************************************)
(* Spec: the network on NumNodes nodes; node 1 sends node 2 up to MaxTx    *)
(* transfers of 60, which go into MaxBlocks blocks.                        *)
(***************************************************************************)
Init == InitNetwork(NumNodes)

Next ==
    \/ Consensus
    \/ RunConsensusAgain
    \/ CreateTransaction(1, 2, 60, MaxTx, MaxBlocks)

Spec == Init /\ [][Next]_vars

(***************************************************************************)
(* SpecLedger: the network on LedgerNodes nodes with the client calls of   *)
(* LedgerCalls, up to LedgerMaxTx transactions in LedgerMaxBlocks blocks.  *)
(***************************************************************************)
\* the calls create_transaction(sender, recipient, amount) of the clients: a
\* transfer, one that exceeds the genesis award, a self-transfer, a zero amount
LedgerCalls == {<< 1, 2, 60 >>, << 2, 1, 150 >>, << 1, 1, 60 >>, << 1, 2, 0 >>}

InitLedger == InitNetwork(LedgerNodes)

NextLedger ==
    \/ Consensus
    \/ RunConsensusAgain
    \/ \E c \in LedgerCalls :
          CreateTransaction(c[1], c[2], c[3], LedgerMaxTx, LedgerMaxBlocks)
    \/ \E sig \in {0, 2} : AddUnsignedTransaction(1, 2, 60, sig)

SpecLedger == InitLedger /\ [][NextLedger]_vars

(***************************************************************************)
(* SpecDecide: the majority test of run_consensus_on_block applied to      *)
(* every vector of DecideNodes per-node outcomes.                          *)
(***************************************************************************)
InitDecide ==
    /\ nodes = 1..DecideNodes
    /\ blockchain = [i \in 1..DecideNodes |-> << >>]
    /\ balance = [i \in 1..DecideNodes |-> 0]
    /\ finalized_blocks = [i \in 1..DecideNodes |-> {}]
    /\ consensus_states = [i \in 1..DecideNodes |-> NoStates]
    /\ mempool = << >>
    /\ pc = "decide"
    /\ caller = "none"
    /\ blk = NoBlock
    /\ cur = DecideNodes
    /\ rounds = 0
    /\ consensus_results \in [1..DecideNodes -> BOOLEAN]
    /\ accepted = NoStates
    /\ known = << >>
    /\ clock = 0
    /\ reruns = 0
    /\ varied = 0
    /\ createdAt = NoStates
    /\ finalRet = [i \in 1..DecideNodes |-> NoStates]
    /\ lastCall = NoCall
    /\ workers = << >>
    /\ VariantsIdle

\* the majority test alone, on the outcomes drawn by InitDecide
Decide ==
    /\ pc = "decide"
    /\ accepted' = Put(accepted, blk.hash, NetworkDecision(consensus_results))
    /\ pc' = "decided"
    /\ UNCHANGED << nodes, workers, variantVars, chainVars, consensus_states, mempool, loopVars,
                    clientVars, varied, finalRet >>

SpecDecide == InitDecide /\ [][Decide]_vars

(***************************************************************************)
(* Properties                                                              *)
(***************************************************************************)
\* number of copies of the block with hash h in a chain
Copies(chain, h) == Cardinality({i \in 1..Len(chain) : chain[i].hash = h})

\* transaction tx is one of the transactions of block b
InItem(tx, b) == \E i \in 1..Len(b.transactions) : b.transactions[i] = tx

\* the pending transactions that are not in block b, in queue order
Others(pool, b) == SelectSeq(pool, LAMBDA tx : ~InItem(tx, b))

\* the transactions of a sequence of blocks
TxsOf(blocks) ==
    UNION {{blocks[i].transactions[j] : j \in 1..Len(blocks[i].transactions)} :
              i \in 1..Len(blocks)}

\* the client transactions that are pending, proposed or committed
ClientTxs ==
    {tx \in {mempool[i] : i \in 1..Len(mempool)} \cup TxsOf(known)
               \cup UNION {TxsOf(blockchain[n]) : n \in nodes} :
        tx.sender_public_key # SystemSender}

\* run_consensus_on_block has returned for a proposed (non-genesis) block
Returned == pc \in {"loop", "idle"} /\ blk.hash \in DOMAIN accepted /\ blk.index > 0

\* the step in which run_consensus_on_block returns
Returns == pc = "aggregate" /\ pc' # "aggregate"

\* C1: once the ConsensusState of a node for an item is finalized, every later
\* call of participate_in_consensus for the item returns the value the
\* finalizing call returned.
C1_SameOutcome ==
    \A n \in nodes :
        (n <= Len(consensus_results) /\ blk.hash \in DOMAIN finalRet[n])
            => consensus_results[n] = finalRet[n][blk.hash]

\* C2: the network decision is Accepted if and only if strictly more nodes
\* returned accept than reject; an equal split is Rejected.
C2_StrictMajority ==
    pc = "decided" =>
        LET accepts == Cardinality({i \in 1..Len(consensus_results) :
                                        consensus_results[i]})
        IN  accepted[blk.hash] <=> 2 * accepts > Len(consensus_results)

C2_Witness ==
    /\ pc = "decided"
    /\ 2 * Cardinality({i \in 1..Len(consensus_results) : consensus_results[i]})
           = Len(consensus_results)
    /\ ~accepted[blk.hash]

\* C3: once run_consensus_on_block has returned Accepted for an item, every
\* node's chain holds the item exactly once, whatever the node itself voted
\* and however often the call is repeated.
C3_AcceptedOnce ==
    \A h \in DOMAIN accepted :
        accepted[h] => \A n \in nodes : Copies(blockchain[n], h) = 1

C3_Witness ==
    /\ pc = "idle"
    /\ caller = "direct"
    /\ blk.hash \in DOMAIN accepted
    /\ accepted[blk.hash]
    /\ \E n \in nodes : blk.hash \in DOMAIN finalRet[n] /\ ~finalRet[n][blk.hash]
    /\ \A n \in nodes : Copies(blockchain[n], blk.hash) = 1

\* C4: when run_consensus_on_block returns Accepted, no transaction of the item
\* remains in the mempool and the other pending transactions remain, in order.
C4_AcceptedLeavesOthers ==
    [][(Returns /\ accepted'[blk.hash]) =>
          /\ \A i \in 1..Len(mempool') : ~InItem(mempool'[i], blk)
          /\ mempool' = Others(mempool, blk)]_vars

C4_Witness ==
    /\ Returned
    /\ accepted[blk.hash]
    /\ Len(blk.transactions) = transactions_per_block
    /\ mempool # << >>
    /\ \A i \in 1..Len(mempool) : ~InItem(mempool[i], blk)

\* C5: when process_pending_transactions sees its proposed item Rejected, it
\* removes the transactions of the item and no others from the mempool, and no
\* later proposal contains a transaction of a rejected item.
C5_DroppedAtReject ==
    (Returns /\ caller = "process" /\ ~accepted'[blk.hash]) =>
        /\ mempool' = Others(mempool, blk)
        /\ Len(mempool') = Len(mempool) - Len(blk.transactions)

C5_NeverAgain ==
    \A i \in 1..Len(known) :
        (known[i].hash \in DOMAIN accepted /\ ~accepted[known[i].hash]) =>
            /\ \A k \in 1..Len(mempool) : ~InItem(mempool[k], known[i])
            /\ \A j \in (i + 1)..Len(known) :
                  \A k \in 1..Len(known[j].transactions) :
                      ~InItem(known[j].transactions[k], known[i])

C5_RejectedDropped == [][C5_DroppedAtReject]_vars /\ []C5_NeverAgain

C5_Witness ==
    /\ Returned
    /\ caller = "process"
    /\ ~accepted[blk.hash]
    /\ mempool # << >>
    /\ Len(known) = 2

\* C6 as stated: an item whose network decision is Rejected is in the finalized
\* set of no node.
C6_RejectedNowhereFinalized ==
    \A h \in DOMAIN accepted :
        ~accepted[h] => \A n \in nodes : h \notin finalized_blocks[n]

\* C6 as amended: an item whose network decision is Rejected is absent from the
\* finalized set of every node whose own participation returned reject, and in
\* the finalized set of every node whose own participation returned accept.
C6_RejectedFinalizedByVoters ==
    \A h \in DOMAIN accepted :
        ~accepted[h] =>
            \A n \in nodes :
                /\ h \in DOMAIN finalRet[n]
                /\ h \in finalized_blocks[n] <=> finalRet[n][h]

C6_Witness ==
    \E h \in DOMAIN accepted :
        /\ ~accepted[h]
        /\ \E n \in nodes : h \in finalized_blocks[n]
        /\ \E n \in nodes : h \notin finalized_blocks[n]

\* the item is in the chain of every node
InAllChains(b) == \A n \in nodes : HoldsBlock(blockchain[n], b.hash)

\* no transaction of the item is pending
GoneFromMempool(b) == \A i \in 1..Len(mempool) : ~InItem(mempool[i], b)

\* C7 as stated: run_consensus_on_block on an item of 2 valid transactions
\* returns Accepted, with the item in every chain and both transactions gone
\* from the mempool, whatever the samples and the initial opinions.
C7_AlwaysAccepted ==
    (Returned /\ Len(blk.transactions) = 2) =>
        accepted[blk.hash] /\ InAllChains(blk) /\ GoneFromMempool(blk)

\* C7 as amended: whenever run_consensus_on_block on an item of 2 valid
\* transactions returns Accepted, the item is in every chain and both
\* transactions are gone from the mempool.
C7_AcceptedIsApplied ==
    (Returned /\ Len(blk.transactions) = 2 /\ accepted[blk.hash]) =>
        InAllChains(blk) /\ GoneFromMempool(blk)

C7_Witness ==
    /\ Returned
    /\ Len(blk.transactions) = 2
    /\ accepted[blk.hash]
    /\ InAllChains(blk)
    /\ mempool = << >>
    /\ \E i \in 1..Len(consensus_results) : ~consensus_results[i]

\* C8: a create_transaction whose amount exceeds the replayed balance of the
\* sender leaves the mempool and the chains as they were, and no pending,
\* proposed or committed transaction exceeded the balance its sender had when
\* it was created.
C8_RefusedChangesNothing ==
    (lastCall' # lastCall /\ lastCall'.op = "refused") =>
        /\ lastCall'.amount
               > update_balance(blockchain[lastCall'.sender], lastCall'.sender)
        /\ mempool' = mempool
        /\ blockchain' = blockchain

C8_WithinBalance ==
    \A tx \in ClientTxs :
        /\ tx.transaction_id \in DOMAIN createdAt
        /\ tx.amount <= createdAt[tx.transaction_id]

C8_InsufficientBalance == [][C8_RefusedChangesNothing]_vars /\ []C8_WithinBalance

C8_Witness ==
    /\ lastCall.op = "refused"
    /\ lastCall.amount <= GenesisAward
    /\ lastCall.amount > update_balance(blockchain[lastCall.sender], lastCall.sender)
    /\ mempool = << >>

\* C9: no transaction with a non-positive amount, with the sender as recipient
\* or without a valid signature is ever pending, proposed or committed.
C9_OnlyValidAdmitted ==
    \A tx \in ClientTxs :
        /\ tx.amount > 0
        /\ tx.sender_public_key # tx.recipient_public_key
        /\ verify_transaction(tx)

CreateBlockProposal ==
    /\ pc = "idle"
    /\ mempool # << >>
    /\ Len(known) - 1 < ApiMaxProposals
    /\ \E z \in BOOLEAN :
          LET block_transactions ==
                  SubSeq(mempool, 1, Min(transactions_per_block, Len(mempool)))
          IN  known' = Append(known, create_block_proposal(block_transactions, z))
    /\ lastCall' = NoCall
    /\ UNCHANGED << nodes, workers, variantVars, chainVars, consensus_states, mempool, pc, loopVars,
                    accepted, clock, reruns, varied, createdAt, finalRet >>

\* a direct call of run_consensus_on_block on a block proposed earlier
RunConsensusOnProposal ==
    /\ pc = "idle"
    /\ reruns < ApiMaxRuns
    /\ \E i \in 1..Len(known) : RunConsensusOnBlock(known[i], "direct")
    /\ reruns' = reruns + 1
    /\ lastCall' = NoCall
    /\ UNCHANGED << nodes, workers, variantVars, known, clock, createdAt >>

InitApi == InitNetwork(ApiNodes)

NextApi ==
    \/ Consensus
    \/ CreateBlockProposal
    \/ RunConsensusOnProposal
    \/ CreateTransaction(1, 2, 60, ApiMaxTx, ApiMaxProposals)

SpecApi == InitApi /\ [][NextApi]_vars

\* C11: in every node's chain the first block has previous_hash "0" and each
\* later block has the hash of the block before it as previous_hash and an
\* index one greater, after any sequence of create_block_proposal and
\* run_consensus_on_block calls.
C11_ChainLinked ==
    \A n \in nodes :
        LET chain == blockchain[n]
        IN  /\ Len(chain) > 0 => chain[1].previous_hash = 0
            /\ \A i \in 2..Len(chain) :
                  /\ chain[i].previous_hash = chain[i - 1].hash
                  /\ chain[i].index = chain[i - 1].index + 1

\* sequence s is a prefix of sequence t
IsPrefix(s, t) == Len(s) <= Len(t) /\ SubSeq(t, 1, Len(s)) = s

\* C12: across every operation the chain of every node before the operation
\* is a prefix of the chain after it: no committed item is removed, replaced
\* or reordered.
C12_AppendOnly ==
    [][\A n \in nodes : IsPrefix(blockchain[n], blockchain'[n])]_vars

C12_Witness ==
    /\ pc = "idle"
    /\ \A n \in nodes : Len(blockchain[n]) = 3

\* C13: run_consensus_on_block on the block of index 0 proposed on empty
\* chains returns Accepted without any call of participate_in_consensus:
\* every chain is then exactly [genesis], the genesis hash is in every
\* finalized set and no node holds a ConsensusState.
C13_GenesisForced ==
    [][pc = "init" =>
          LET genesis_block == known'[1]
          IN  /\ genesis_block.index = 0
              /\ pc' = "idle"
              /\ consensus_results' = << >>
              /\ accepted'[genesis_block.hash]
              /\ \A n \in nodes :
                    /\ blockchain'[n] = << genesis_block >>
                    /\ genesis_block.hash \in finalized_blocks'[n]
                    /\ consensus_states'[n] = NoStates]_vars

C13_Witness ==
    /\ pc = "idle"
    /\ Len(known) = 1
    /\ \A n \in nodes :
          /\ blockchain[n] = << known[1] >>
          /\ known[1].hash \in finalized_blocks[n]
          /\ consensus_states[n] = NoStates
    /\ accepted[known[1].hash]

(***************************************************************************)
(* SpecSample: one call of sample_nodes by any node of any network of 1 to *)
(* SampleNodes nodes.                                                      *)
(***************************************************************************)
\* the variables no call of sample_nodes or query_node_opinion reads, as
\* initialize_network leaves them on a network of n nodes
RestOfNetwork(n) ==
    /\ nodes = 1..n
    /\ blockchain = [i \in 1..n |-> << >>]
    /\ balance = [i \in 1..n |-> 0]
    /\ mempool = << >>
    /\ caller = "none"
    /\ rounds = 0
    /\ consensus_results = << >>
    /\ accepted = NoStates
    /\ known = << >>
    /\ clock = 0
    /\ reruns = 0
    /\ varied = 0
    /\ createdAt = NoStates
    /\ finalRet = [i \in 1..n |-> NoStates]
    /\ lastCall = NoCall
    /\ workers = << >>
    /\ VariantsIdle

InitSample ==
    \E n \in 1..SampleNodes :
        /\ RestOfNetwork(n)
        /\ finalized_blocks = [i \in 1..n |-> {}]
        /\ consensus_states = [i \in 1..n |-> NoStates]
        /\ blk = NoBlock
        /\ cur \in 1..n
        /\ pc = "sample"

\* the lists random.sample returns for the sample S: its members in any order
SampleLists(S) ==
    {s \in [1..Cardinality(S) -> S] : \A i, j \in DOMAIN s : i # j => s[i] # s[j]}

\* node cur calls sample_nodes
SampleNodesCall ==
    /\ pc = "sample"
    /\ \E S \in sample_nodes(cur) :
          \E s \in SampleLists(S) :
              lastCall' = [op |-> "sample_nodes", result |-> s]
    /\ pc' = "sampled"
    /\ UNCHANGED << nodes, workers, variantVars,
                    chainVars, consensus_states, mempool, loopVars, accepted,
                    known, clock, reruns, varied, createdAt, finalRet >>

SpecSample == InitSample /\ [][SampleNodesCall]_vars

\* C14: sample_nodes has a result on every network, and the result is a list
\* of exactly min(k, N-1) pairwise distinct nodes of the network that does not
\* contain the calling node.
C14_SampleClamped ==
    /\ \A n \in nodes : sample_nodes(n) # {}
    /\ pc = "sampled" =>
          LET s == lastCall.result
          IN  /\ Len(s) = Min(sample_size, Cardinality(nodes) - 1)
              /\ \A i, j \in 1..Len(s) : i # j => s[i] # s[j]
              /\ \A i \in 1..Len(s) : s[i] \in nodes /\ s[i] # cur

C14_Witness ==
    /\ pc = "sampled"
    /\ sample_size > Cardinality(nodes) - 1
    /\ Len(lastCall.result) = Cardinality(nodes) - 1
    /\ Len(lastCall.result) > 1

(***************************************************************************)
(* SpecQuery: up to MaxQueries calls of query_node_opinion for one item,   *)
(* by any node on any peer, from every situation a peer can be in.         *)
(***************************************************************************)
\* the item of the queries
QueryItem == Block(1, 2, 1, << >>, FALSE)

\* the situations of a peer towards an item: [known, state, final] with
\* known = the item is in finalized_blocks, state = its ConsensusState or
\* NoStates.  A state is finalized after snowball_phase raised its confidence
\* to confidence_threshold; the item is in finalized_blocks once the peer
\* finalized accept or add_block committed the item.
PeerSituations ==
    LET Running(v, c) == [ConsensusState(v) EXCEPT !.confidence = c]
        Final(v) == [Running(v, confidence_threshold) EXCEPT !.finalized = TRUE]
    IN  {[known |-> FALSE, state |-> NoStates]}
        \cup {[known |-> FALSE, state |-> (QueryItem.hash :> Running(v, c))] :
                 v \in {0, 1}, c \in {0, confidence_threshold}}
        \cup {[known |-> FALSE, state |-> (QueryItem.hash :> Final(0))]}
        \cup {[known |-> TRUE, state |-> (QueryItem.hash :> Final(v))] : v \in {0, 1}}

InitQuery ==
    /\ RestOfNetwork(QueryNodes)
    /\ \E situation \in [1..QueryNodes -> PeerSituations] :
          /\ finalized_blocks =
                 [i \in 1..QueryNodes |->
                     IF situation[i].known THEN {QueryItem.hash} ELSE {}]
          /\ consensus_states = [i \in 1..QueryNodes |-> situation[i].state]
    /\ blk = QueryItem
    /\ cur = 0
    /\ pc = "query"

\* node q calls query_node_opinion(blk.hash, p)
QueryNodeOpinionCall ==
    /\ pc = "query"
    /\ rounds < MaxQueries
    /\ \E q \in nodes :
          \E p \in nodes \ {q} :
              \E fresh \in [Unseen({p}, blk.hash) -> {0, 1}] :
                  /\ lastCall' =
                         [op |-> "query_node_opinion", node |-> q, peer |-> p,
                          result |-> query_node_opinion(blk.hash, p, fresh),
                          again |-> (lastCall.op = "query_node_opinion"
                                        /\ lastCall.peer = p)]
                  /\ consensus_states' = AfterQueries({p}, blk.hash, fresh)
    /\ rounds' = rounds + 1
    /\ UNCHANGED << nodes, workers, variantVars, chainVars, mempool, pc, caller, blk, cur,
                    consensus_results, accepted, known, clock, reruns, varied,
                    createdAt, finalRet >>

SpecQuery == InitQuery /\ [][QueryNodeOpinionCall]_vars

\* a step that is a call of query_node_opinion
IsQuery == rounds' = rounds + 1 /\ lastCall'.op = "query_node_opinion"

\* C15: query_node_opinion returns 1 for an item in the finalized set of the
\* peer, whatever ConsensusState the peer holds; for an item outside the
\* finalized set with a ConsensusState on the peer it returns the preference
\* of that state and changes nothing.
C15_OracleReads ==
    [][IsQuery =>
          LET h == blk.hash
              p == lastCall'.peer
          IN  /\ h \in finalized_blocks[p] => lastCall'.result = 1
              /\ (h \notin finalized_blocks[p] /\ h \in DOMAIN consensus_states[p]) =>
                    /\ lastCall'.result = consensus_states[p][h].current_preference
                    /\ consensus_states' = consensus_states
                    /\ finalized_blocks' = finalized_blocks]_vars

C15_Witness ==
    /\ lastCall.op = "query_node_opinion"
    /\ blk.hash \in finalized_blocks[lastCall.peer]
    /\ consensus_states[lastCall.peer][blk.hash].current_preference = 0
    /\ lastCall.result = 1

\* C16: a query of a peer that has neither finalized the item nor a
\* ConsensusState for it creates on the peer, and on no other node, the
\* ConsensusState of the returned opinion with all counters 0 and not
\* finalized; the next query of the same peer returns the same opinion.
C16_OraclePersists ==
    [][IsQuery =>
          LET h == blk.hash
              p == lastCall'.peer
          IN  /\ (h \notin finalized_blocks[p] /\ h \notin DOMAIN consensus_states[p]) =>
                    /\ lastCall'.result \in {0, 1}
                    /\ consensus_states' =
                           [consensus_states EXCEPT
                               ![p] = Put(@, h, ConsensusState(lastCall'.result))]
                    /\ consensus_states'[p][h] =
                           [current_preference |-> lastCall'.result,
                            confidence |-> 0, consecutive_count |-> 0,
                            preference_counters |-> [v \in {0, 1} |-> 0],
                            finalized |-> FALSE]
              /\ lastCall'.again => lastCall'.result = lastCall.result]_vars

C16_Witness ==
    /\ lastCall.op = "query_node_opinion"
    /\ lastCall.again
    /\ blk.hash \notin finalized_blocks[lastCall.peer]
    /\ consensus_states[lastCall.peer][blk.hash] = ConsensusState(lastCall.result)
    /\ lastCall.result = 0

\* node n has finalized item h, by its finalized set or by its ConsensusState
HasFinalized(n, h) ==
    \/ h \in finalized_blocks[n]
    \/ h \in DOMAIN consensus_states[n] /\ consensus_states[n][h].finalized

\* C17: a call of participate_in_consensus for an item that is in the finalized
\* set of the node, or whose ConsensusState on the node is finalized, returns
\* at once: it runs no phase, samples no peer, and leaves every ConsensusState
\* and every finalized set as they were.
C17_ShortCircuitFrame ==
    [][(pc = "participate" /\ HasFinalized(cur, blk.hash)) =>
          /\ pc' \in {"participate", "aggregate"}
          /\ Len(consensus_results') = Len(consensus_results) + 1
          /\ consensus_states' = consensus_states
          /\ finalized_blocks' = finalized_blocks
          /\ varied' = varied]_vars

C17_Witness ==
    /\ pc = "participate"
    /\ cur = 2
    /\ reruns = 1
    /\ blk.index > 0
    /\ consensus_results = << FALSE >>
    /\ blk.hash \notin finalized_blocks[1]
    /\ consensus_states[1][blk.hash].finalized

\* C18: a ConsensusState that is finalized stays finalized and keeps its
\* preference in every later step.
C18_FinalizedImmutable ==
    [][\A n \in nodes :
          \A h \in DOMAIN consensus_states[n] :
              consensus_states[n][h].finalized =>
                  /\ h \in DOMAIN consensus_states'[n]
                  /\ consensus_states'[n][h].finalized
                  /\ consensus_states'[n][h].current_preference
                         = consensus_states[n][h].current_preference]_vars

C18_Witness ==
    /\ pc = "idle"
    /\ reruns = 1
    /\ caller = "direct"
    /\ blk.index > 0
    /\ \E n \in nodes :
          /\ blk.hash \in finalized_blocks[n]
          /\ consensus_states[n][blk.hash].finalized
          /\ consensus_states[n][blk.hash].current_preference = 0

(***************************************************************************)
(* SpecFair: Spec with the steps of a running run_consensus_on_block taken *)
(* as long as one is possible: the code is sequential, so a call that has  *)
(* started goes on to its next statement.  Client calls are not forced.    *)
(***************************************************************************)
RunningCall ==
    \/ ParticipateShortCircuit
    \/ ParticipateInit
    \/ ParticipateResume
    \/ SnowflakeRound
    \/ SnowballRound
    \/ AvalanchePhase
    \/ Aggregate

SpecFair == Spec /\ WF_vars(RunningCall)

\* the positions inside the phases of participate_in_consensus
InPhases == pc \in {"snowflake", "snowball", "avalanche"}

\* the positions inside run_consensus_on_block
InConsensus == InPhases \/ pc \in {"participate", "aggregate"}

\* the round ceilings, and one result per node invoked so far
C19_Bounds ==
    /\ pc = "snowflake" => rounds < 5
    /\ pc = "snowball" => rounds < 10
    /\ pc \in {"participate", "snowflake", "snowball", "avalanche"} =>
          Len(consensus_results) = cur - 1
    /\ pc = "aggregate" => Len(consensus_results) = Cardinality(nodes)

\* a call that went through the phases ends with its ConsensusState finalized
C19_Finalizes ==
    pc = "avalanche" =>
        /\ pc' \in {"participate", "aggregate"}
        /\ consensus_states'[cur][blk.hash].finalized
        /\ Len(consensus_results') = Len(consensus_results) + 1

\* C19: a call of participate_in_consensus that is not short-circuited runs
\* at most 5 Snowflake rounds and 10 Snowball rounds after its single
\* initialisation, then returns with its ConsensusState finalized;
\* run_consensus_on_block invokes each node exactly once and returns.
C19_Terminates ==
    /\ []C19_Bounds
    /\ [][C19_Finalizes]_vars
    /\ InPhases ~> ~InPhases
    /\ InConsensus ~> ~InConsensus

C19_Witness ==
    /\ pc = "aggregate"
    /\ blk.index > 0
    /\ Len(consensus_results) = Cardinality(nodes)
    /\ \A n \in nodes : consensus_states[n][blk.hash].finalized
    /\ \E n \in nodes : consensus_results[n]
    /\ \E n \in nodes : ~consensus_results[n]

(***************************************************************************)
(* SpecConcurrent: the participations of all nodes for one proposed block  *)
(* run as one worker per node, joined before the network decision.  The    *)
(* head of participate_in_consensus, its initialisation, slush_phase and   *)
(* query_node_opinion are interleaved statement by statement; a later      *)
(* phase round is one step.                                                *)
(***************************************************************************)
\* a worker that has not started
NoWorker ==
    [pos |-> "idle", todo |-> {}, acc |-> 0, total |-> 0, peer |-> 0,
     opinion |-> 0, rnd |-> 0, res |-> FALSE, created |-> 0]

\* workers with ConsensusState objects created on the peers of set P
Creating(w, P) ==
    [i \in DOMAIN w |-> IF i \in P THEN [w[i] EXCEPT !.created = @ + 1] ELSE w[i]]

\* what a worker step leaves alone besides consensus_states and finalized_blocks
workerFrame ==
    << nodes, variantVars, blockchain, balance, mempool, pc, loopVars, accepted, clientVars,
       varied, finalRet >>

InitConcurrent == InitNetwork(ConcurrentNodes)

\* the coordinator proposes the pending transactions and starts one worker per node
StartParallel ==
    /\ pc = "idle"
    /\ mempool # << >>
    /\ Len(known) = 1
    /\ \E z \in BOOLEAN :
          LET block_transactions ==
                  SubSeq(mempool, 1, Min(transactions_per_block, Len(mempool)))
              proposed_block == create_block_proposal(block_transactions, z)
          IN  /\ known' = Append(known, proposed_block)
              /\ blk' = proposed_block
    /\ pc' = "parallel"
    /\ caller' = "direct"
    /\ cur' = 0
    /\ rounds' = 0
    /\ consensus_results' = << >>
    /\ workers' = [n \in nodes |-> [NoWorker EXCEPT !.pos = "start"]]
    /\ lastCall' = NoCall
    /\ UNCHANGED << nodes, variantVars, chainVars, consensus_states, mempool, accepted, clock,
                    reruns, varied, createdAt, finalRet >>

\* participate_in_consensus lines 269-273: the two short circuits
WorkerEnter(n) ==
    /\ pc = "parallel"
    /\ workers[n].pos = "start"
    /\ workers' =
           [workers EXCEPT ![n] =
               IF ShortCircuits(n, blk.hash)
               THEN [@ EXCEPT !.pos = "done", !.res = ShortCircuitValue(n, blk.hash)]
               ELSE [@ EXCEPT !.pos = "check"]]
    /\ UNCHANGED << workerFrame, consensus_states, finalized_blocks >>

\* line 278: the test `block_hash not in self.consensus_states`, and line 281
WorkerCheck(n) ==
    /\ pc = "parallel"
    /\ workers[n].pos = "check"
    /\ IF blk.hash \in DOMAIN consensus_states[n]
       THEN workers' = [workers EXCEPT ![n].pos = "snowflake", ![n].rnd = 0]
       ELSE IF blk.zeros \/ Len(blockchain[n]) = 0
            THEN \E initial_preference \in {0, 1} :
                    workers' = [workers EXCEPT ![n].pos = "assign",
                                               ![n].opinion = initial_preference]
            ELSE workers' = [workers EXCEPT ![n].pos = "slush"]
    /\ UNCHANGED << workerFrame, consensus_states, finalized_blocks >>

\* slush_phase line 141: sample_nodes
WorkerSlushSample(n) ==
    /\ pc = "parallel"
    /\ workers[n].pos = "slush"
    /\ \E S \in sample_nodes(n) :
          workers' = [workers EXCEPT ![n].pos = "query", ![n].todo = S,
                                     ![n].acc = 0, ![n].total = Cardinality(S)]
    /\ UNCHANGED << workerFrame, consensus_states, finalized_blocks >>

\* query_node_opinion lines 112-124 on the next sampled peer: the answer of a
\* peer that has finalized or holds a ConsensusState, or the draw of an opinion
WorkerQueryRead(n) ==
    /\ pc = "parallel"
    /\ workers[n].pos = "query"
    /\ \E p \in workers[n].todo :
          IF Unseen({p}, blk.hash) = {}
          THEN workers' =
                   [workers EXCEPT
                       ![n].acc = @ + query_node_opinion(blk.hash, p, NoStates),
                       ![n].todo = @ \ {p}]
          ELSE \E initial_opinion \in {0, 1} :
                  workers' = [workers EXCEPT ![n].pos = "create", ![n].peer = p,
                                             ![n].opinion = initial_opinion]
    /\ UNCHANGED << workerFrame, consensus_states, finalized_blocks >>

\* query_node_opinion lines 127-132: the ConsensusState is stored on the peer
WorkerQueryWrite(n) ==
    /\ pc = "parallel"
    /\ workers[n].pos = "create"
    /\ LET p == workers[n].peer
           o == workers[n].opinion
       IN  /\ consensus_states' =
                  [consensus_states EXCEPT ![p] = Put(@, blk.hash, ConsensusState(o))]
           /\ workers' =
                  [Creating(workers, {p}) EXCEPT
                      ![n].pos = "query", ![n].acc = @ + o, ![n].todo = @ \ {p}]
    /\ UNCHANGED << workerFrame, finalized_blocks >>

\* slush_phase lines 149-156: the majority opinion is returned
WorkerSlushAdopt(n) ==
    /\ pc = "parallel"
    /\ workers[n].pos = "query"
    /\ workers[n].todo = {}
    /\ workers' =
           [workers EXCEPT
               ![n].pos = "assign",
               ![n].opinion = MajorityOpinion(workers[n].acc, workers[n].total)]
    /\ UNCHANGED << workerFrame, consensus_states, finalized_blocks >>

\* lines 285-288: the ConsensusState of the node is stored
WorkerAssign(n) ==
    /\ pc = "parallel"
    /\ workers[n].pos = "assign"
    /\ consensus_states' =
           [consensus_states EXCEPT
               ![n] = Put(@, blk.hash, ConsensusState(workers[n].opinion))]
    /\ workers' = [Creating(workers, {n}) EXCEPT ![n].pos = "snowflake", ![n].rnd = 0]
    /\ UNCHANGED << workerFrame, finalized_blocks >>

\* one call of snowflake_phase
WorkerSnowflake(n) ==
    /\ pc = "parallel"
    /\ workers[n].pos = "snowflake"
    /\ \E S \in sample_nodes(n) :
          \E fresh \in [Unseen(S, blk.hash) -> {0, 1}] :
              LET state ==
                      SnowflakeUpdate(consensus_states[n][blk.hash],
                                      AcceptCount(S, blk.hash, fresh), Cardinality(S))
                  reached == state.consecutive_count >= decision_threshold
                  over == reached \/ workers[n].rnd + 1 = SnowflakeRounds
              IN  /\ consensus_states' =
                         [AfterQueries(S, blk.hash, fresh) EXCEPT
                             ![n] = Put(@, blk.hash, state)]
                  /\ workers' =
                         [Creating(workers, Unseen(S, blk.hash)) EXCEPT
                             ![n].pos = IF over THEN "snowball" ELSE "snowflake",
                             ![n].rnd = IF over THEN 0 ELSE @ + 1]
    /\ UNCHANGED << workerFrame, finalized_blocks >>

\* one call of snowball_phase
WorkerSnowball(n) ==
    /\ pc = "parallel"
    /\ workers[n].pos = "snowball"
    /\ \E S \in sample_nodes(n) :
          \E fresh \in [Unseen(S, blk.hash) -> {0, 1}] :
              LET state ==
                      SnowballUpdate(consensus_states[n][blk.hash],
                                     AcceptCount(S, blk.hash, fresh), Cardinality(S))
                  reached == state.confidence >= confidence_threshold
                  over == reached \/ workers[n].rnd + 1 = SnowballRounds
              IN  /\ consensus_states' =
                         [AfterQueries(S, blk.hash, fresh) EXCEPT
                             ![n] = Put(@, blk.hash, state)]
                  /\ workers' =
                         [Creating(workers, Unseen(S, blk.hash)) EXCEPT
                             ![n].pos = IF over THEN "avalanche" ELSE "snowball",
                             ![n].rnd = IF over THEN 0 ELSE @ + 1]
    /\ UNCHANGED << workerFrame, finalized_blocks >>

\* avalanche_phase, and the return of participate_in_consensus
WorkerAvalanche(n) ==
    /\ pc = "parallel"
    /\ workers[n].pos = "avalanche"
    /\ LET h == blk.hash
           state == [consensus_states[n][h] EXCEPT !.finalized = TRUE]
       IN  /\ consensus_states' = [consensus_states EXCEPT ![n] = Put(@, h, state)]
           /\ finalized_blocks' =
                  [finalized_blocks EXCEPT
                      ![n] = FinalizedAfterAvalanche(@, h, state.current_preference)]
           /\ workers' = [workers EXCEPT ![n].pos = "done",
                                         ![n].res = (state.current_preference = 1)]
    /\ UNCHANGED workerFrame

\* the coordinator joins the workers and gathers consensus_results
JoinParallel ==
    /\ pc = "parallel"
    /\ \A n \in nodes : workers[n].pos = "done"
    /\ consensus_results' = [n \in 1..Cardinality(nodes) |-> workers[n].res]
    /\ cur' = Cardinality(nodes)
    /\ pc' = "aggregate"
    /\ UNCHANGED << nodes, workers, variantVars, chainVars, consensus_states, mempool, caller,
                    blk, rounds, accepted, clientVars, varied, finalRet >>

NextConcurrent ==
    \/ CreateGenesisBlock
    \/ CreateTransaction(1, 2, 60, 1, 1)
    \/ StartParallel
    \/ \E n \in nodes : WorkerEnter(n)
    \/ \E n \in nodes : WorkerCheck(n)
    \/ \E n \in nodes : WorkerSlushSample(n)
    \/ \E n \in nodes : WorkerQueryRead(n)
    \/ \E n \in nodes : WorkerQueryWrite(n)
    \/ \E n \in nodes : WorkerSlushAdopt(n)
    \/ \E n \in nodes : WorkerAssign(n)
    \/ \E n \in nodes : WorkerSnowflake(n)
    \/ \E n \in nodes : WorkerSnowball(n)
    \/ \E n \in nodes : WorkerAvalanche(n)
    \/ JoinParallel
    \/ Aggregate

SpecConcurrent == InitConcurrent /\ [][NextConcurrent]_vars

\* C20: with the participations for one item run concurrently, the
\* ConsensusState of every node for the item is stored at most once: a state
\* that a query created on a node is never replaced by the node's own
\* initialisation.
C20_CreatedOnce ==
    \A n \in DOMAIN workers : workers[n].created <= 1

(***************************************************************************)
(* SpecPow: the proof-of-work ledger of bitcoin.py on the network of main  *)
(* cut to PowNodes nodes: genesis, then Node.create_transaction,           *)
(* add_transaction_to_mempool and Blockchain.mine_next_block in any order. *)
(* A public key is the id of its node; the keys of the nodes differ.       *)
(***************************************************************************)
\* Blockchain.miners, in the order of add_node: Miner_1 and Miner_2 of main
Miners == << 2, 3 >>

\* RewardTransaction that pays the reward to the system key
RewardTransactionToSystem(m, id) ==
    Transaction(id, SystemSender, SystemSender, mining_reward, 0)

\* the reward transaction of Miner.mine_block for miner m
RewardTransaction(m, id) == Transaction(id, SystemSender, m, mining_reward, 0)

\* Node.update_balance of bitcoin.py: the replay of the chain of node n
NodeUpdateBalance(chain, n) ==
    LET txs == Flatten([i \in 1..Len(chain) |-> chain[i].transactions])
        received == [i \in 1..Len(txs) |->
                        IF txs[i].recipient_public_key = n THEN txs[i].amount ELSE 0]
        sent == [i \in 1..Len(txs) |->
                    IF txs[i].sender_public_key = n THEN txs[i].amount ELSE 0]
    IN  SumSeq(received) - SumSeq(sent)

\* Miner.mine_block: the block of miner m on transactions, after previous_block
MinerMineBlock(m, transactions, previous_block) ==
    LET all_transactions ==
            << RewardTransaction(m, -(Cardinality(nodes) + Len(known))) >>
                \o transactions
    IN  Block(previous_block.index + 1, Len(known) + 1, previous_block.hash,
              all_transactions, TRUE)

\* the slice self.mempool[start_idx:end_idx] of the i-th miner (i from 0)
MinerTransactions(pool, i) ==
    SubSeq(pool, i * transactions_per_block + 1,
           Min(i * transactions_per_block + transactions_per_block, Len(pool)))

\* the miners that take part in the competition: the loop of mine_next_block
\* breaks at the first miner whose slice starts beyond the mempool
Competitors(pool) ==
    {i \in 0..(Len(Miners) - 1) : i * transactions_per_block < Len(pool)}

\* the mempool of mine_next_block after block b won
MempoolAfterMined(pool, b) ==
    LET mined_transaction_ids ==
            {b.transactions[i].transaction_id : i \in
                {j \in 1..Len(b.transactions) :
                    b.transactions[j].sender_public_key # SystemSender}}
    IN  SelectSeq(pool, LAMBDA tx : tx.transaction_id \notin mined_transaction_ids)

\* Blockchain.create_genesis_block of bitcoin.py
CreatePowGenesis ==
    /\ pc = "init"
    /\ LET genesis_transactions ==
               [i \in 1..Cardinality(nodes) |->
                   Transaction(-i, SystemSender, i, PowGenesisAward, 0)]
           genesis_block == Block(0, 1, 0, genesis_transactions, TRUE)
       IN  /\ known' = << genesis_block >>
           /\ blockchain' = [n \in nodes |-> Append(blockchain[n], genesis_block)]
           /\ balance' =
                  [n \in nodes |->
                      NodeUpdateBalance(Append(blockchain[n], genesis_block), n)]
    /\ pc' = "pow"
    /\ UNCHANGED << nodes, workers, variantVars, finalized_blocks, consensus_states, mempool,
                    loopVars, accepted, clock, reruns, varied, createdAt, finalRet,
                    lastCall >>

\* Node.create_transaction of node s, and add_transaction_to_mempool on a
\* transaction it returned
PowCreateTransaction(s, r, amount) ==
    /\ pc = "pow"
    /\ clock < PowMaxTx
    /\ LET bal == NodeUpdateBalance(blockchain[s], s)
           transaction ==
               sign_transaction(Transaction(clock + 1, s, r, amount, 0), s)
       IN  /\ balance' = [balance EXCEPT ![s] = bal]
           /\ IF bal < amount
              THEN /\ lastCall' = [op |-> "refused", sender |-> s,
                                   recipient |-> r, amount |-> amount]
                   /\ UNCHANGED << mempool, clock >>
              ELSE /\ mempool' = add_transaction_to_mempool(mempool, transaction)
                   /\ clock' = clock + 1
                   /\ lastCall' = NoCall
    /\ UNCHANGED << nodes, workers, variantVars, blockchain, finalized_blocks, consensus_states, pc,
                    loopVars, accepted, known, reruns, varied, createdAt, finalRet >>

\* Blockchain.mine_next_block: nothing on an empty mempool; otherwise every
\* competing miner mines its slice, random.choice picks the winning block, every
\* node adds it and its transactions leave the mempool
MineNextBlock ==
    /\ pc = "pow"
    /\ Len(blockchain[1]) - 1 < PowMaxBlocks
    /\ IF mempool = << >>
       THEN /\ lastCall' = [op |-> "mine_next_block", sender |-> 0,
                            recipient |-> 0, amount |-> 0]
            /\ UNCHANGED << blockchain, balance, mempool, known >>
       ELSE \E i \in Competitors(mempool) :
               LET latest_block == blockchain[1][Len(blockchain[1])]
                   winning_block ==
                       MinerMineBlock(Miners[i + 1], MinerTransactions(mempool, i),
                                      latest_block)
               IN  /\ blockchain' =
                          [n \in nodes |-> Append(blockchain[n], winning_block)]
                   /\ balance' =
                          [n \in nodes |->
                              NodeUpdateBalance(Append(blockchain[n], winning_block), n)]
                   /\ mempool' = MempoolAfterMined(mempool, winning_block)
                   /\ known' = Append(known, winning_block)
                   /\ lastCall' = [op |-> "mine_next_block", sender |-> 0,
                                   recipient |-> Miners[i + 1], amount |-> 0]
    /\ UNCHANGED << nodes, workers, variantVars, finalized_blocks, consensus_states, pc, loopVars,
                    accepted, clock, reruns, varied, createdAt, finalRet >>

InitPow == InitNetwork(PowNodes)

NextPow ==
    \/ CreatePowGenesis
    \/ \E s, r \in nodes : \E amount \in PowAmounts : PowCreateTransaction(s, r, amount)
    \/ MineNextBlock

SpecPow == InitPow /\ [][NextPow]_vars

SlushStep(n, h) ==
    \E S \in sample_nodes(n) :
        \E fresh \in [Unseen(S, h) -> {0, 1}] :
            consensus_states' =
                [AfterQueries(S, h, fresh) EXCEPT
                    ![n] = Put(@, h,
                               ConsensusState(
                                   MajorityOpinion(AcceptCount(S, h, fresh),
                                                   Cardinality(S))))]

\* C22: on its first participation in a non-genesis item every node executes
\* Slush once, sampling peers and setting its initial preference to the
\* sampled strict majority, before any Snowflake round, also when a peer's
\* earlier query has already created a ConsensusState on the node.
C22_SlushOnFirstParticipation ==
    [][(pc = "participate" /\ blk.index > 0 /\ ~HasFinalized(cur, blk.hash)) =>
          /\ pc' = "snowflake"
          /\ SlushStep(cur, blk.hash)]_vars

(***************************************************************************)
(* SpecRound: one call of participate_in_consensus by node 1 for one       *)
(* proposed item, on every network of 1 to RoundNodes nodes and from every *)
(* situation its peers can be in; each phase call leaves in lastCall the   *)
(* opinions it sampled and the value it returned.                          *)
(***************************************************************************)
\* the genesis block of a network of n nodes
RoundGenesis(n) ==
    Block(0, 1, 0,
          [i \in 1..n |-> Transaction(-i, SystemSender, i, GenesisAward, 0)], FALSE)

\* the pending transaction and the item proposed on it
RoundTransaction == Transaction(1, 1, 2, 60, 1)

RoundItem(z) == Block(1, 2, 1, << RoundTransaction >>, z)

\* the situations of a peer when node 1 starts: no ConsensusState; one that a
\* query created; one it finalized as reject; one it finalized as accept,
\* with the item in its finalized set
RoundSituations ==
    LET Final(v) == [ConsensusState(v) EXCEPT !.confidence = confidence_threshold,
                                              !.finalized = TRUE]
    IN  {[known |-> FALSE, state |-> NoStates]}
        \cup {[known |-> FALSE, state |-> (2 :> ConsensusState(v))] : v \in {0, 1}}
        \cup {[known |-> FALSE, state |-> (2 :> Final(0))],
              [known |-> TRUE, state |-> (2 :> Final(1))]}

InitRound ==
    \E n \in 1..RoundNodes :
        /\ nodes = 1..n
        /\ blockchain = [i \in 1..n |-> << RoundGenesis(n) >>]
        /\ balance = [i \in 1..n |-> GenesisAward]
        /\ \E situation \in [2..n -> RoundSituations] :
              /\ finalized_blocks =
                     [i \in 1..n |->
                         IF i > 1 /\ situation[i].known THEN {1, 2} ELSE {1}]
              /\ consensus_states =
                     [i \in 1..n |-> IF i > 1 THEN situation[i].state ELSE NoStates]
        /\ mempool = << RoundTransaction >>
        /\ pc = "participate"
        /\ caller = "direct"
        /\ \E z \in BOOLEAN :
              /\ blk = RoundItem(z)
              /\ known = << RoundGenesis(n), RoundItem(z) >>
        /\ cur = 1
        /\ rounds = 0
        /\ consensus_results = << >>
        /\ accepted = (1 :> TRUE)
        /\ clock = 1
        /\ reruns = 0
        /\ varied = 0
        /\ createdAt = (1 :> GenesisAward)
        /\ finalRet = [i \in 1..n |-> NoStates]
        /\ lastCall = NoCall
        /\ workers = << >>
        /\ VariantsIdle

\* what a phase call of SpecRound leaves alone
roundFrame ==
    << nodes, workers, variantVars, blockchain, balance, mempool, caller, blk, cur,
       consensus_results, accepted, known, clock, reruns, varied, createdAt >>

\* the record of a phase call: the sampled accept count, the size of the
\* sample and the value the call returned
PhaseCall(name, accept_count, total, result) ==
    [op |-> name, accept_count |-> accept_count, total |-> total, result |-> result]

\* lines 278-288: the initial preference (weighted random for a hash that
\* starts with "0000", slush_phase otherwise) and the new ConsensusState
RoundInitialise ==
    /\ pc = "participate"
    /\ ~ShortCircuits(cur, blk.hash)
    /\ blk.hash \notin DOMAIN consensus_states[cur]
    /\ IF blk.zeros \/ Len(blockchain[cur]) = 0
       THEN \E initial_preference \in {0, 1} :
               /\ consensus_states' =
                      [consensus_states EXCEPT
                          ![cur] = Put(@, blk.hash, ConsensusState(initial_preference))]
               /\ lastCall' = PhaseCall("random.choices", 0, 0, initial_preference)
       ELSE \E S \in sample_nodes(cur) :
               \E fresh \in [Unseen(S, blk.hash) -> {0, 1}] :
                   LET accept_count == AcceptCount(S, blk.hash, fresh)
                       majority_opinion == MajorityOpinion(accept_count, Cardinality(S))
                   IN  /\ consensus_states' =
                              [AfterQueries(S, blk.hash, fresh) EXCEPT
                                  ![cur] = Put(@, blk.hash,
                                               ConsensusState(majority_opinion))]
                       /\ lastCall' = PhaseCall("slush_phase", accept_count,
                                                Cardinality(S), majority_opinion)
    /\ pc' = "snowflake"
    /\ rounds' = 0
    /\ UNCHANGED << roundFrame, finalized_blocks, finalRet >>

\* one iteration of `for _ in range(5)`: a call of snowflake_phase
RoundSnowflake ==
    /\ pc = "snowflake"
    /\ \E S \in sample_nodes(cur) :
          \E fresh \in [Unseen(S, blk.hash) -> {0, 1}] :
              LET accept_count == AcceptCount(S, blk.hash, fresh)
                  state == SnowflakeUpdate(consensus_states[cur][blk.hash],
                                           accept_count, Cardinality(S))
                  reached == state.consecutive_count >= decision_threshold
              IN  /\ consensus_states' =
                         [AfterQueries(S, blk.hash, fresh) EXCEPT
                             ![cur] = Put(@, blk.hash, state)]
                  /\ lastCall' = PhaseCall("snowflake_phase", accept_count,
                                           Cardinality(S), reached)
                  /\ IF reached \/ rounds + 1 = SnowflakeRounds
                     THEN pc' = "snowball" /\ rounds' = 0
                     ELSE pc' = "snowflake" /\ rounds' = rounds + 1
    /\ UNCHANGED << roundFrame, finalized_blocks, finalRet >>

\* one iteration of `for _ in range(10)`: a call of snowball_phase
RoundSnowball ==
    /\ pc = "snowball"
    /\ \E S \in sample_nodes(cur) :
          \E fresh \in [Unseen(S, blk.hash) -> {0, 1}] :
              LET accept_count == AcceptCount(S, blk.hash, fresh)
                  state == SnowballUpdate(consensus_states[cur][blk.hash],
                                          accept_count, Cardinality(S))
                  reached == state.confidence >= confidence_threshold
              IN  /\ consensus_states' =
                         [AfterQueries(S, blk.hash, fresh) EXCEPT
                             ![cur] = Put(@, blk.hash, state)]
                  /\ lastCall' = PhaseCall("snowball_phase", accept_count,
                                           Cardinality(S), reached)
                  /\ IF reached \/ rounds + 1 = SnowballRounds
                     THEN pc' = "avalanche" /\ rounds' = 0
                     ELSE pc' = "snowball" /\ rounds' = rounds + 1
    /\ UNCHANGED << roundFrame, finalized_blocks, finalRet >>

\* avalanche_phase, and the return of its value by participate_in_consensus
RoundAvalanche ==
    /\ pc = "avalanche"
    /\ LET h == blk.hash
           state == [consensus_states[cur][h] EXCEPT !.finalized = TRUE]
           result == state.current_preference = 1
       IN  /\ consensus_states' = [consensus_states EXCEPT ![cur] = Put(@, h, state)]
           /\ finalized_blocks' =
                  [finalized_blocks EXCEPT
                      ![cur] = FinalizedAfterAvalanche(@, h, state.current_preference)]
           /\ finalRet' = [finalRet EXCEPT ![cur] = Put(@, h, result)]
           /\ lastCall' = PhaseCall("avalanche_phase", 0, 0, result)
    /\ pc' = "returned"
    /\ rounds' = 0
    /\ UNCHANGED roundFrame

NextRound ==
    \/ RoundInitialise
    \/ RoundSnowflake
    \/ RoundSnowball
    \/ RoundAvalanche

SpecRound == InitRound /\ [][NextRound]_vars

\* the ConsensusState of the participating node before and after a step
StateBefore == consensus_states[cur][blk.hash]

StateAfter == consensus_states'[cur][blk.hash]

\* the majority of the opinions a phase call sampled (reject on a tie)
SampledMajority(call) == IF 2 * call.accept_count > call.total THEN 1 ELSE 0

\* the number of sampled opinions equal to v
SampledFor(call, v) == IF v = 1 THEN call.accept_count ELSE call.total - call.accept_count

\* C23: in a Snowflake round where the sampled majority equals the preference
\* of the node and at least quorum_threshold sampled opinions equal that
\* preference, consecutive_count increases by exactly 1 and the preference is
\* unchanged, for preference 0 as well as for preference 1.
C23_SnowflakeCounts ==
    [][pc = "snowflake" =>
          LET call == lastCall'
              preference == StateBefore.current_preference
          IN  (/\ SampledMajority(call) = preference
               /\ SampledFor(call, preference) >= quorum_threshold) =>
                  /\ StateAfter.consecutive_count = StateBefore.consecutive_count + 1
                  /\ StateAfter.current_preference = preference]_vars

\* C24: in a Snowflake round whose sampled majority differs from the
\* preference of the node, consecutive_count becomes 1 and the preference
\* becomes the sampled majority.
C24_SnowflakeResetsToOne ==
    [][pc = "snowflake" =>
          LET call == lastCall'
          IN  SampledMajority(call) # StateBefore.current_preference =>
                  /\ StateAfter.consecutive_count = 1
                  /\ StateAfter.current_preference = SampledMajority(call)]_vars

\* the round ceiling of Snowflake: inside the loop fewer than 5 rounds are done
\* and no round has reached the decision threshold yet
C25_InLoop ==
    /\ pc = "snowflake" =>
          /\ rounds \in 0..4
          /\ consensus_states[cur][blk.hash].consecutive_count < decision_threshold
    /\ \A n \in nodes :
          \A h \in DOMAIN consensus_states[n] :
              consensus_states[n][h].consecutive_count <= 5

\* the exits of the Snowflake loop
C25_Exit ==
    /\ pc = "participate" => pc' # "snowball"
    /\ pc = "snowflake" =>
          /\ pc' = IF StateAfter.consecutive_count >= decision_threshold
                      \/ rounds + 1 = 5
                   THEN "snowball" ELSE "snowflake"
          /\ rounds' = IF pc' = "snowball" THEN 0 ELSE rounds + 1

\* C25: within one participation Snowflake runs at least 1 and at most 5
\* rounds, stops right after the first round that leaves consecutive_count at
\* or above decision_threshold, and in either case goes on to Snowball with
\* the preference it then holds; consecutive_count never exceeds 5.
C25_SnowflakeLoop == []C25_InLoop /\ [][C25_Exit]_vars

C25_Witness ==
    /\ pc = "snowball"
    /\ rounds = 0
    /\ consensus_states[cur][blk.hash].confidence = 0
    /\ consensus_states[cur][blk.hash].consecutive_count = 0
    /\ \E n \in nodes :
          /\ n < cur
          /\ consensus_states[n][blk.hash].consecutive_count >= decision_threshold

\* the tallies of the participating node before and after a step
TallyBefore == StateBefore.preference_counters

TallyAfter == StateAfter.preference_counters

\* C26: each Snowball round increments at most one tally, by exactly 1:
\* tally[1] if the sampled accept count is at least quorum_threshold, otherwise
\* tally[0] if the sampled reject count is; the preference changes in the round
\* only to the side whose tally has just become strictly greater than the
\* other, and a round without quorum leaves tallies and preference unchanged.
C26_SnowballTallies ==
    [][pc = "snowball" =>
          LET accept_count == lastCall'.accept_count
              reject_count == lastCall'.total - accept_count
              side == IF accept_count >= quorum_threshold THEN 1 ELSE 0
              new == StateAfter.current_preference
          IN  /\ IF accept_count >= quorum_threshold \/ reject_count >= quorum_threshold
                 THEN /\ TallyAfter[side] = TallyBefore[side] + 1
                      /\ TallyAfter[1 - side] = TallyBefore[1 - side]
                 ELSE /\ TallyAfter = TallyBefore
                      /\ new = StateBefore.current_preference
              /\ new # StateBefore.current_preference =>
                    /\ TallyAfter[new] = TallyBefore[new] + 1
                    /\ TallyAfter[new] > TallyAfter[1 - new]
                    /\ ~(TallyBefore[new] > TallyBefore[1 - new])]_vars

C26_Witness ==
    /\ pc = "avalanche"
    /\ lastCall.op = "snowball_phase"
    /\ lastCall.total - lastCall.accept_count >= quorum_threshold
    /\ consensus_states[cur][blk.hash].consecutive_count = 1
    /\ consensus_states[cur][blk.hash].current_preference = 0
    /\ consensus_states[cur][blk.hash].preference_counters[0] = 2
    /\ consensus_states[cur][blk.hash].preference_counters[1] = 1

\* inside the Snowball loop the confidence is the number of rounds done, below
\* the threshold and below the cap; a returned call left confidence min(b2, 10)
C27_InLoop ==
    /\ pc = "snowball" =>
          /\ rounds \in 0..9
          /\ consensus_states[cur][blk.hash].confidence = rounds
          /\ consensus_states[cur][blk.hash].confidence < confidence_threshold
    /\ pc = "returned" =>
          /\ consensus_states[cur][blk.hash].finalized
          /\ consensus_states[cur][blk.hash].confidence = Min(confidence_threshold, 10)
          /\ consensus_states[cur][blk.hash].confidence = 3

\* one round adds exactly 1 to the confidence, with or without quorum, and the
\* loop ends at the threshold or at the tenth round
C27_Round ==
    pc = "snowball" =>
        /\ StateAfter.confidence = StateBefore.confidence + 1
        /\ pc' = IF StateAfter.confidence >= confidence_threshold \/ rounds + 1 = 10
                 THEN "avalanche" ELSE "snowball"

\* C27: every Snowball round increases confidence by exactly 1 whether or not
\* a quorum was reached; the phase stops after the first round with confidence
\* at or above confidence_threshold and after at most 10 rounds, so a node
\* finalizes an item with confidence min(confidence_threshold, 10) = 3.
C27_SnowballConfidence == []C27_InLoop /\ [][C27_Round]_vars

C27_Witness ==
    /\ pc = "returned"
    /\ lastCall.op = "avalanche_phase"
    /\ Cardinality(nodes) = 5
    /\ consensus_states[cur][blk.hash].confidence = 3
    /\ consensus_states[cur][blk.hash].preference_counters = [v \in {0, 1} |-> 0]

\* C28: the Avalanche step sets finalized = true, and returns accept if and
\* only if the preference of the node is 1; it adds the item to the finalized
\* set of the node exactly in that case and leaves the finalized sets as they
\* were when the preference is 0.
C28_AvalancheStep ==
    [][pc = "avalanche" =>
          LET h == blk.hash
              preference == StateBefore.current_preference
          IN  /\ StateAfter = [StateBefore EXCEPT !.finalized = TRUE]
              /\ consensus_results' = Append(consensus_results, preference = 1)
              /\ preference = 1 =>
                    finalized_blocks' =
                        [finalized_blocks EXCEPT ![cur] = @ \cup {h}]
              /\ preference = 0 =>
                    /\ finalized_blocks' = finalized_blocks
                    /\ h \notin finalized_blocks'[cur]]_vars

C28_Witness ==
    /\ pc = "participate"
    /\ cur = 3
    /\ consensus_results = << TRUE, FALSE >>
    /\ consensus_states[1][blk.hash].finalized
    /\ consensus_states[2][blk.hash].finalized
    /\ blk.hash \in finalized_blocks[1]
    /\ blk.hash \notin finalized_blocks[2]

\* C29: slush_phase returns 1 if and only if the sampled accept opinions
\* strictly outnumber the sampled reject opinions, and 0 on a tie or on an
\* empty sample; the result is a function of the sampled opinions alone.
C29_SlushMajority ==
    [][(pc = "participate" /\ lastCall'.op = "slush_phase") =>
          LET accepts == lastCall'.accept_count
              rejects == lastCall'.total - lastCall'.accept_count
          IN  /\ lastCall'.result \in {0, 1}
              /\ lastCall'.result = 1 <=> accepts > rejects
              /\ accepts = rejects => lastCall'.result = 0
              /\ lastCall'.total = 0 => lastCall'.result = 0
              /\ StateAfter = ConsensusState(lastCall'.result)]_vars

C29_Witness ==
    /\ pc = "snowflake"
    /\ rounds = 0
    /\ lastCall.op = "slush_phase"
    /\ lastCall.total = 4
    /\ lastCall.accept_count = 2
    /\ lastCall.result = 0
    /\ consensus_states[cur][blk.hash].current_preference = 0

\* C30: while a node participates in consensus for an item, the only change
\* it makes outside its own ConsensusState and finalized set is the creation
\* of a missing ConsensusState on a queried peer: it modifies no existing
\* ConsensusState, finalized set, chain or balance of another node, and not
\* the mempool.
C30_ParticipationFrame ==
    [][InPhases \/ pc = "participate" =>
          /\ blockchain' = blockchain
          /\ balance' = balance
          /\ mempool' = mempool
          /\ \A n \in nodes \ {cur} :
                /\ finalized_blocks'[n] = finalized_blocks[n]
                /\ \A h \in DOMAIN consensus_states[n] :
                      /\ h \in DOMAIN consensus_states'[n]
                      /\ consensus_states'[n][h] = consensus_states[n][h]
                /\ \A h \in DOMAIN consensus_states'[n] \ DOMAIN consensus_states[n] :
                      /\ h = blk.hash
                      /\ h \notin finalized_blocks[n]
                      /\ consensus_states'[n][h] \in
                             {ConsensusState(0), ConsensusState(1)}]_vars

C30_Witness ==
    /\ pc = "avalanche"
    /\ cur = 2
    /\ consensus_states[1][blk.hash].finalized
    /\ consensus_states[1][blk.hash].preference_counters[1] > 0
    /\ \E n \in nodes : n > cur /\ consensus_states[n] = (blk.hash :> ConsensusState(1))
    /\ \E n \in nodes : n > cur /\ consensus_states[n] = NoStates

(***************************************************************************)
(* process_pending_transactions and repeated run_consensus_on_block calls  *)
(***************************************************************************)
\* the client transactions of a chain, in chain order
ChainTxs(chain) ==
    Flatten([i \in 1..Len(chain) |->
                IF chain[i].index = 0 THEN << >> ELSE chain[i].transactions])

\* one proposal of the while loop of process_pending_transactions
C31_Proposal ==
    (pc = "loop" /\ mempool # << >>) =>
        /\ pc' = "participate"
        /\ known' = Append(known, blk')
        /\ blk'.transactions =
               SubSeq(mempool, 1, Min(transactions_per_block, Len(mempool)))
        /\ blk'.previous_hash = blockchain[1][Len(blockchain[1])].hash
        /\ blk'.index = Len(blockchain[1])

\* the committed client transactions of every chain are in submission order
C31_Order ==
    \A n \in nodes :
        LET txs == ChainTxs(blockchain[n])
        IN  \A i, j \in 1..Len(txs) :
                i < j => txs[i].transaction_id < txs[j].transaction_id

\* C31: each step of process_pending_transactions proposes the first
\* min(2, |mempool|) pending transactions in queue order on node 0's current
\* tip, and the accepted transactions are in every chain in the order they
\* were submitted.
C31_FifoProposals == [][C31_Proposal]_vars /\ []C31_Order

C31_Witness ==
    /\ pc = "idle"
    /\ Len(blockchain[1]) = 3
    /\ Len(blockchain[1][2].transactions) = 2
    /\ Len(ChainTxs(blockchain[1])) = 3
    /\ blockchain[1][3].previous_hash = blockchain[1][2].hash

(***************************************************************************)
(* SpecDrain: the network on LedgerNodes nodes, node 1 sending node 2 up   *)
(* to LedgerMaxTx transfers; a started process_pending_transactions or     *)
(* run_consensus_on_block goes on to its next statement (the code is       *)
(* sequential).  Client calls are not forced.                              *)
(***************************************************************************)
RunningProcess == RunningCall \/ ProcessLoop

NextDrain ==
    \/ Consensus
    \/ RunConsensusAgain
    \/ CreateTransaction(1, 2, 60, LedgerMaxTx, LedgerMaxBlocks)

SpecDrain == InitLedger /\ [][NextDrain]_vars /\ WF_vars(RunningProcess)

\* an iteration of the while loop ends with fewer pending transactions than
\* it started with, and the loop is left only on an empty mempool
C32_Iteration ==
    /\ (pc = "aggregate" /\ caller = "process") =>
           /\ pc' = "loop"
           /\ Len(mempool') < Len(mempool)
    /\ (pc = "loop" /\ pc' = "idle") => mempool' = << >>
    /\ (InConsensus /\ caller = "process" /\ pc # "aggregate") => mempool' = mempool

\* C32: process_pending_transactions terminates for every outcome of
\* consensus: each iteration of its loop removes at least one pending
\* transaction, accepted or rejected, and the mempool is empty on return.
C32_Drains ==
    /\ [][C32_Iteration]_vars
    /\ (pc = "loop") ~> (pc = "idle" /\ mempool = << >>)

C32_Witness ==
    /\ pc = "idle"
    /\ mempool = << >>
    /\ Len(known) = 3
    /\ accepted[known[2].hash]
    /\ ~accepted[known[3].hash]
    /\ Len(known[2].transactions) = 2
    /\ reruns = 0

\* C33: no node's replayed balance is ever negative, after any sequence of
\* create_transaction, add_transaction_to_mempool and
\* process_pending_transactions calls, even when a node creates several
\* transactions before any of them is committed.
C33_NeverNegative ==
    \A n \in nodes : update_balance(blockchain[n], n) >= 0 /\ balance[n] >= 0

\* C34: after any sequence of run_consensus_on_block calls all nodes hold
\* identical local blockchains, the same blocks in the same order, however
\* the individual nodes voted.
C34_SameChains ==
    \A n, m \in nodes : blockchain[n] = blockchain[m]

C34_Witness ==
    /\ pc = "idle"
    /\ Len(blockchain[1]) = 2
    /\ reruns = 1
    /\ \E n, m \in nodes :
          /\ consensus_states[n][blockchain[1][2].hash].current_preference = 0
          /\ consensus_states[m][blockchain[1][2].hash].current_preference = 1

\* a step of run_consensus_on_block on an item decided before
C35_Rerun ==
    (InConsensus /\ blk.hash \in DOMAIN accepted) =>
        /\ UNCHANGED << blockchain, balance, finalized_blocks, consensus_states,
                        mempool >>
        /\ pc = "aggregate" =>
               /\ accepted' = accepted
               /\ NetworkDecision(consensus_results) = accepted[blk.hash]

\* C35: a call of run_consensus_on_block on an item that has already been
\* decided returns the decision of the first call and changes no node's
\* blockchain, finalized set or ConsensusState, nor the mempool.
C35_RerunChangesNothing == [][C35_Rerun]_vars

C35_Witness ==
    /\ pc = "idle"
    /\ caller = "direct"
    /\ blk.index > 0
    /\ blk.hash \in DOMAIN accepted
    /\ ~accepted[blk.hash]
    /\ \E n \in nodes : blk.hash \in finalized_blocks[n]
    /\ \E n \in nodes : ~consensus_results[n]

\* the preference of a ConsensusState agrees with its Snowball tallies
TalliesAgree(state) ==
    /\ state.preference_counters[1] > state.preference_counters[0] =>
           state.current_preference = 1
    /\ state.preference_counters[0] > state.preference_counters[1] =>
           state.current_preference = 0

\* C36: in every reachable ConsensusState of a node, when one Snowball tally
\* is strictly greater than the other the preference is the side of the
\* greater tally, and the outcome a node returns from its finalizing call is
\* that preference.
C36_PreferenceFollowsTallies ==
    \A n \in nodes :
        \A h \in DOMAIN consensus_states[n] :
            /\ TalliesAgree(consensus_states[n][h])
            /\ h \in DOMAIN finalRet[n] =>
                   finalRet[n][h] = (consensus_states[n][h].current_preference = 1)

C36_Witness ==
    \E n, m \in nodes :
        \E h \in DOMAIN consensus_states[n] \cap DOMAIN consensus_states[m] :
            /\ consensus_states[n][h].finalized
            /\ consensus_states[n][h].preference_counters[0] = 1
            /\ consensus_states[n][h].preference_counters[1] = 2
            /\ h \in DOMAIN finalRet[n] /\ finalRet[n][h]
            /\ consensus_states[m][h].finalized
            /\ consensus_states[m][h].preference_counters[0] > 0
            /\ consensus_states[m][h].preference_counters[1] = 0
            /\ h \in DOMAIN finalRet[m] /\ ~finalRet[m][h]

(***************************************************************************)
(* SpecMine: the threaded proof-of-work ledger of shivang-240980-1/main.py.*)
(* mining holds the Blockchain (blocks, lock), the miners' balances and,   *)
(* per create_block call, its stop_event, its winning_block list and its   *)
(* miner threads.  The miners hash the same template with the same nonces, *)
(* so the hash of a call matches at one nonce for all of them.  A join     *)
(* returns when its thread has ended or when its timeout expires.          *)
(***************************************************************************)
\* the variables of the Avalanche network, which this program does not use
networkVars ==
    << nodes, blockchain, balance, finalized_blocks, consensus_states, mempool, pc,
       caller, blk, cur, rounds, consensus_results, accepted, known, clock, reruns,
       varied, createdAt, finalRet, lastCall, workers >>

\* Blockchain.__secret, the previous_hash of the first block
MineSecret == 0

\* the miner threads started so far, as pairs of call and miner
MinerThreads == IF mining = NotStarted THEN {} ELSE DOMAIN mining.threads

\* the threads of create_block call c
ThreadsOf(c) == {t \in MinerThreads : t[1] = c}

\* Blockchain() and the Miner objects of the script (balance 1000 each)
MineSetup ==
    /\ mining = NotStarted
    /\ \E m \in 0..MineMiners :
          mining' = [blocks |-> << >>, lock |-> << >>, all_miners |-> 1..m,
                     balance |-> [i \in 1..m |-> 1000], calls |-> << >>,
                     threads |-> << >>, pc |-> "idle", joined |-> 0,
                     last |-> "none"]
    /\ UNCHANGED << networkVars, simulation, session >>

\* the re-check of mine_block inside the lock, always passed
RecheckAlways(call) == TRUE

\* the re-check of mine_block after acquiring the lock
Recheck(call) == ~call.stop_event

\* create_block up to the start of the miner threads
CreateBlock(valid, fee) ==
    /\ mining.pc = "idle"
    /\ Len(mining.calls) < MineMaxCalls
    /\ IF ~valid
       THEN mining' = [mining EXCEPT !.last = "invalid signature"]
       ELSE IF fee < 0
       THEN mining' = [mining EXCEPT !.last = "negative fee"]
       ELSE IF mining.all_miners = {}
       THEN mining' = [mining EXCEPT !.last = "no miners"]
       ELSE \E nonce \in 0..MineMaxNonce :
               LET c == Len(mining.calls) + 1
                   block_template ==
                       [index |-> Len(mining.blocks),
                        previous_hash |->
                            IF mining.blocks = << >> THEN MineSecret
                            ELSE mining.blocks[Len(mining.blocks)].hash,
                        fee |-> fee]
                   call == [block_template |-> block_template, nonce |-> nonce,
                            stop_event |-> FALSE, winning_block |-> << >>]
                   started == {<< c, m >> : m \in mining.all_miners}
               IN  mining' =
                       [mining EXCEPT
                           !.calls = Append(@, call),
                           !.threads =
                               [t \in DOMAIN @ \cup started |->
                                   IF t \in started THEN [pos |-> "while", i |-> 0]
                                   ELSE @[t]],
                           !.pc = "join", !.joined = 0, !.last = "started"]
    /\ UNCHANGED << networkVars, simulation, session >>

\* mine_block: the test of `while not stop_event.is_set()`
MinerWhile(t) ==
    /\ mining.threads[t].pos = "while"
    /\ mining' =
           [mining EXCEPT
               !.threads[t].pos =
                   IF mining.calls[t[1]].stop_event THEN "ended" ELSE "hash"]
    /\ UNCHANGED << networkVars, simulation, session >>

\* mine_block: one hash and its comparison with the target
MinerHash(t) ==
    /\ mining.threads[t].pos = "hash"
    /\ mining' =
           IF mining.threads[t].i = mining.calls[t[1]].nonce
           THEN [mining EXCEPT !.threads[t].pos = "acquire"]
           ELSE [mining EXCEPT !.threads[t].pos = "while", !.threads[t].i = @ + 1]
    /\ UNCHANGED << networkVars, simulation, session >>

\* mine_block: `with result_lock`, entered when no thread holds the lock
MinerAcquire(t) ==
    /\ mining.threads[t].pos = "acquire"
    /\ mining.lock = << >>
    /\ mining' = [mining EXCEPT !.lock = t, !.threads[t].pos = "locked"]
    /\ UNCHANGED << networkVars, simulation, session >>

\* mine_block inside the lock: the re-check, then winning_block.append, or
\* the release of the lock and the next turn of the loop
MinerRecheck(t) ==
    /\ mining.threads[t].pos = "locked"
    /\ mining' =
           IF Recheck(mining.calls[t[1]])
           THEN LET block == [index |-> mining.calls[t[1]].block_template.index,
                              previous_hash |->
                                  mining.calls[t[1]].block_template.previous_hash,
                              fee |-> mining.calls[t[1]].block_template.fee,
                              nonce |-> mining.threads[t].i,
                              hash |-> t[1], miner |-> t[2]]
                IN  [mining EXCEPT !.calls[t[1]].winning_block = Append(@, block),
                                   !.threads[t].pos = "set"]
           ELSE [mining EXCEPT !.lock = << >>, !.threads[t].pos = "while",
                               !.threads[t].i = @ + 1]
    /\ UNCHANGED << networkVars, simulation, session >>

\* mine_block inside the lock: stop_event.set() and the return
MinerSet(t) ==
    /\ mining.threads[t].pos = "set"
    /\ mining' = [mining EXCEPT !.calls[t[1]].stop_event = TRUE,
                                !.lock = << >>, !.threads[t].pos = "ended"]
    /\ UNCHANGED << networkVars, simulation, session >>

\* create_block: t.join(timeout=60) of the next thread returns
Join ==
    /\ mining.pc = "join"
    /\ LET c == Len(mining.calls)
           m == mining.joined + 1
       IN  /\ \E timeout \in BOOLEAN :
                 timeout \/ mining.threads[<< c, m >>].pos = "ended"
           /\ mining' =
                  [mining EXCEPT
                      !.joined = m,
                      !.pc = IF m = Cardinality(mining.all_miners) THEN "result"
                             ELSE "join"]
    /\ UNCHANGED << networkVars, simulation, session >>

\* create_block after the joins: the winning block is appended and its miner
\* rewarded, or the mining failed
ProcessResult ==
    /\ mining.pc = "result"
    /\ LET winning_block == mining.calls[Len(mining.calls)].winning_block
       IN  mining' =
               IF winning_block # << >>
               THEN [mining EXCEPT
                        !.blocks = Append(@, winning_block[1]),
                        !.balance[winning_block[1].miner] =
                            @ + winning_block[1].fee,
                        !.pc = "idle", !.last = "mined"]
               ELSE [mining EXCEPT !.pc = "idle", !.last = "timeout"]
    /\ UNCHANGED << networkVars, simulation, session >>

InitMine == InitNetwork(0)

NextMine ==
    \/ MineSetup
    \/ \E valid \in BOOLEAN : \E fee \in MineFees : CreateBlock(valid, fee)
    \/ \E t \in MinerThreads : MinerWhile(t)
    \/ \E t \in MinerThreads : MinerHash(t)
    \/ \E t \in MinerThreads : MinerAcquire(t)
    \/ \E t \in MinerThreads : MinerRecheck(t)
    \/ \E t \in MinerThreads : MinerSet(t)
    \/ Join
    \/ ProcessResult

SpecMine == InitMine /\ [][NextMine]_vars

\* the calls of create_block whose result has been processed
Processed ==
    IF mining.pc = "idle" THEN Len(mining.calls) ELSE Len(mining.calls) - 1

\* C37: for each create_block call at most one miner thread records a
\* winning block, however the miner threads interleave, and at most one
\* block is appended to the chain per call.
C37_OneWinner ==
    mining # NotStarted =>
        /\ \A c \in 1..Len(mining.calls) : Len(mining.calls[c].winning_block) <= 1
        /\ Len(mining.blocks) <= Processed
        /\ \A i, j \in 1..Len(mining.blocks) :
               i < j => mining.blocks[i].hash < mining.blocks[j].hash

C37_Witness ==
    /\ mining.pc = "idle"
    /\ Len(mining.blocks) = 2
    /\ \E t \in ThreadsOf(2) :
          /\ mining.threads[t].pos = "ended"
          /\ mining.threads[t].i = mining.calls[2].nonce + 1
          /\ mining.calls[2].winning_block[1].miner # t[2]

(***************************************************************************)
(* SpecSim: AvalancheSimulation of Aman-240101-1/Avalance_simulation.py,   *)
(* constructed with every choice of 2 to SimNodes nodes, initial states,   *)
(* k, alpha, beta and max_rounds within the bounds, then run.              *)
(***************************************************************************)
\* Node(i, initial_state)
SimNode(initial_state) ==
    [state |-> initial_state, _snowflake_count |-> 0,
     _snowball_counter |-> [v \in {0, 1} |-> 0]]

\* Node.sample: the values it can return for node i, over the samples of k
\* peers that random.sample can draw
Sample(ns, i, k) ==
    LET peers == (1..Len(ns)) \ {i}
        samples == {S \in SUBSET peers : Cardinality(S) = k}
        count(S, v) == Cardinality({p \in S : ns[p].state = v})
    IN  UNION {IF count(S, 0) > count(S, 1) THEN {0}
               ELSE IF count(S, 1) > count(S, 0) THEN {1}
               ELSE {0, 1} : S \in samples}

\* Node.update_snowflake
update_snowflake(node, sampled_state, alpha) ==
    LET counted ==
            [node EXCEPT !._snowflake_count =
                             IF sampled_state = node.state THEN @ + 1 ELSE 1]
    IN  IF counted._snowflake_count >= alpha
        THEN [counted EXCEPT !.state = sampled_state]
        ELSE counted

\* max(self._snowball_counter, key=self._snowball_counter.get): the first key
\* of {0: .., 1: ..} with the largest count
Preferred(counter) == IF counter[1] > counter[0] THEN 1 ELSE 0

\* update_snowball that counts and leaves the state as update_snowflake set it
UpdateSnowballKeepsState(node, sampled_state) ==
    [node EXCEPT !._snowball_counter[sampled_state] = @ + 1]

\* Node.update_snowball
update_snowball(node, sampled_state) ==
    LET counted == [node EXCEPT !._snowball_counter[sampled_state] = @ + 1]
    IN  [counted EXCEPT !.state = Preferred(counted._snowball_counter)]

\* the convergence test of run that is always passed
ConvergedAlways(ns, beta) == TRUE

\* the convergence test of run at the end of a round
Converged(ns, beta) ==
    LET count_0 == Cardinality({i \in 1..Len(ns) : ns[i].state = 0})
        count_1 == Cardinality({i \in 1..Len(ns) : ns[i].state = 1})
    IN  count_0 >= beta \/ count_1 >= beta

\* AvalancheSimulation(num_nodes, k, alpha, beta, max_rounds) and the first
\* statement of run
SimConstruct ==
    /\ simulation = NotStarted
    /\ \E num_nodes \in 2..SimNodes :
          \E states \in [1..num_nodes -> {0, 1}] :
             \E k \in 1..(num_nodes - 1) :
                \E alpha \in 1..SimAlpha :
                   \E beta \in 1..(num_nodes + 1) :
                      \E max_rounds \in 0..SimMaxRounds :
                         simulation' =
                             [pc |-> "while",
                              nodes |-> [i \in 1..num_nodes |-> SimNode(states[i])],
                              k |-> k, alpha |-> alpha, beta |-> beta,
                              max_rounds |-> max_rounds, rounds |-> 0, node |-> 0,
                              sampled |-> 0, performed |-> 0, returned |-> -1]
    /\ UNCHANGED << networkVars, mining, session >>

\* run: the test of `while rounds < self.max_rounds`
SimWhile ==
    /\ simulation.pc = "while"
    /\ simulation' =
           IF simulation.rounds < simulation.max_rounds
           THEN [simulation EXCEPT !.rounds = @ + 1, !.node = 1, !.pc = "for"]
           ELSE [simulation EXCEPT !.pc = "returned", !.returned = simulation.rounds]
    /\ UNCHANGED << networkVars, mining, session >>

\* run: the body of `for node in self.nodes` for one node
SimNodeUpdate ==
    /\ simulation.pc = "for"
    /\ LET i == simulation.node
       IN  \E sampled \in Sample(simulation.nodes, i, simulation.k) :
              LET flaked ==
                      update_snowflake(simulation.nodes[i], sampled, simulation.alpha)
                  balled == update_snowball(flaked, sampled)
              IN  simulation' =
                      [simulation EXCEPT
                          !.nodes[i] = balled,
                          !.sampled = sampled,
                          !.node = IF i = Len(simulation.nodes) THEN i ELSE i + 1,
                          !.pc = IF i = Len(simulation.nodes) THEN "check" ELSE "for"]
    /\ UNCHANGED << networkVars, mining, session >>

\* run: the convergence test that ends a round
SimCheck ==
    /\ simulation.pc = "check"
    /\ simulation' =
           IF Converged(simulation.nodes, simulation.beta)
           THEN [simulation EXCEPT !.performed = @ + 1, !.pc = "returned",
                                   !.returned = simulation.rounds]
           ELSE [simulation EXCEPT !.performed = @ + 1, !.pc = "while"]
    /\ UNCHANGED << networkVars, mining, session >>

InitSim == InitNetwork(0)

NextSim == SimConstruct \/ SimWhile \/ SimNodeUpdate \/ SimCheck

SpecSim == InitSim /\ [][NextSim]_vars

\* at least beta nodes hold the same state
BetaAgree ==
    \E v \in {0, 1} :
        Cardinality({i \in 1..Len(simulation.nodes) : simulation.nodes[i].state = v})
            >= simulation.beta

C39_Update ==
    simulation.pc = "for" =>
        LET i == simulation.node
            before == simulation.nodes[i]
            after == simulation'.nodes[i]
            sampled == simulation'.sampled
        IN  /\ after.state = Preferred(after._snowball_counter)
            /\ \A alpha \in 1..SimAlpha :
                   update_snowball(update_snowflake(before, sampled, alpha),
                                   sampled).state = after.state

\* between the updates every node that has been updated is on the value of
\* its larger Snowball counter
C39_Between ==
    simulation # NotStarted =>
        \A i \in 1..Len(simulation.nodes) :
            LET counter == simulation.nodes[i]._snowball_counter
            IN  counter[0] + counter[1] > 0 =>
                    simulation.nodes[i].state = Preferred(counter)

\* C39: after each node's update within a round the node's state is the
\* value with the larger lifetime Snowball counter, 0 when the counters are
\* equal, so the Snowflake counter and alpha never influence the state that
\* another node can sample.
C39_StateIsSnowball == [][C39_Update]_vars /\ []C39_Between

C39_Witness ==
    /\ simulation.pc \in {"for", "check"}
    /\ simulation.alpha = 1
    /\ \E i \in 1..Len(simulation.nodes) :
          /\ simulation.nodes[i]._snowball_counter[0] = 1
          /\ simulation.nodes[i]._snowball_counter[1] = 1
          /\ simulation.nodes[i]._snowflake_count = 1
          /\ simulation.nodes[i].state = 0
          /\ simulation.sampled = 1
          /\ i = IF simulation.pc = "check" THEN Len(simulation.nodes)
                 ELSE simulation.node - 1

(***************************************************************************)
(* SpecSession: the script Sourish_241037_1/main2_av.py.  session holds    *)
(* its globals and the locals of the transaction loop; the network is cut  *)
(* to the user (node 1) and one random node (node 2), the inputs to the    *)
(* amounts of SessionAmounts and the recipient ids of SessionRecipients.   *)
(* A round of votes is drawn as the number of votes that are 1.            *)
(***************************************************************************)
\* Python's None, as the value of old_pref before the first round
None == -1

\* the script up to its main loop
SessionStart ==
    /\ session = NotStarted
    /\ session' = [pc |-> "menu", balance |-> << SessionBalance, 0 >>,
                   blocks |-> 1, tr_list |-> << >>, tr_counter |-> 1, i |-> 0,
                   amount |-> 0, consec |-> 0, old_pref |-> None,
                   decision |-> FALSE, check_count |-> 0]
    /\ UNCHANGED << networkVars, mining, simulation >>

\* choice 1 of the menu: the loop over up to 3 transactions starts
SessionChoose ==
    /\ session.pc = "menu"
    /\ session.tr_counter <= SessionMaxBlocks
    /\ session' = [session EXCEPT !.pc = "amount", !.i = 0]
    /\ UNCHANGED << networkVars, mining, simulation >>

\* one turn of `for i in range(3)` up to the consensus loop: the amount is
\* read, tested against the balance, signed and verified
SessionAmount(amount, is_valid) ==
    /\ session.pc = "amount"
    /\ session' =
           IF session.i = 3 \/ amount = 0 \/ amount > session.balance[1] \/ ~is_valid
           THEN [session EXCEPT !.pc = "block"]
           ELSE [session EXCEPT !.pc = "consensus", !.amount = amount, !.consec = 0,
                                !.old_pref = None, !.decision = FALSE,
                                !.check_count = 0]
    /\ UNCHANGED << networkVars, mining, simulation >>

\* the preference of a round of votes of which `ones` are 1 (True is 1)
RoundPref(ones) == IF ones >= majority THEN 1 ELSE 0

\* one turn of `while not decision`
SessionRound(ones) ==
    /\ session.pc = "consensus"
    /\ ~session.decision
    /\ session.check_count < SessionMaxChecks
    /\ LET pref == RoundPref(ones)
           consec == IF pref = session.old_pref \/ session.check_count = 0
                     THEN session.consec + 1
                     ELSE 1
       IN  session' = [session EXCEPT !.consec = consec, !.old_pref = pref,
                                      !.decision = consec >= threshold,
                                      !.check_count = @ + 1]
    /\ UNCHANGED << networkVars, mining, simulation >>

\* `if decision`: the test that guards the confirmation
Confirms(decision, old_pref) == decision

\* after the consensus loop: the recipient id is read and the transfer is
\* confirmed, or the id is unknown
SessionConfirm(receiver_id) ==
    /\ session.pc = "consensus"
    /\ session.decision
    /\ session' =
           IF Confirms(session.decision, session.old_pref)
              /\ receiver_id \in DOMAIN session.balance
           THEN [session EXCEPT
                    !.balance =
                        [[@ EXCEPT ![1] = @ - session.amount]
                            EXCEPT ![receiver_id] = @ + session.amount],
                    !.tr_list = Append(@, << 1, receiver_id, session.amount >>),
                    !.i = @ + 1, !.pc = "amount"]
           ELSE [session EXCEPT !.i = @ + 1, !.pc = "amount"]
    /\ UNCHANGED << networkVars, mining, simulation >>

\* after the transaction loop: the confirmed transfers go into a new block
SessionBlock ==
    /\ session.pc = "block"
    /\ session' =
           IF session.tr_list # << >>
           THEN [session EXCEPT !.blocks = @ + 1, !.tr_list = << >>,
                                !.tr_counter = @ + 1, !.pc = "menu"]
           ELSE [session EXCEPT !.pc = "menu"]
    /\ UNCHANGED << networkVars, mining, simulation >>

InitSession == InitNetwork(0)

NextSession ==
    \/ SessionStart
    \/ SessionChoose
    \/ \E amount \in SessionAmounts : \E is_valid \in BOOLEAN :
          SessionAmount(amount, is_valid)
    \/ \E ones \in 0..quorum : SessionRound(ones)
    \/ \E receiver_id \in SessionRecipients : SessionConfirm(receiver_id)
    \/ SessionBlock

SpecSession == InitSession /\ [][NextSession]_vars

\* C40: a transaction is confirmed, its balances moved and the transfer
\* recorded for the next block, only if the consensus loop ended with accept
\* as the agreed preference, at least `majority` of the `quorum` votes being 1
\* in each of the last `threshold` rounds.
C40_ConfirmedOnlyOnAccept ==
    [][(session.pc = "consensus"
        /\ (session'.tr_list # session.tr_list \/ session'.balance # session.balance))
       => (session.old_pref = 1 /\ session.consec >= threshold)]_vars

====
